---- MODULE Spec2Model ----
(***************************************************************************)
(* A model of the seer chess library: board primitives, bitboards and the  *)
(* directional shift algebra, the naive and magic move generators, the     *)
(* ChessBoard position with play/unplay and validation, and the builder.   *)
(*                                                                         *)
(* A Bitboard (a u64 in the source) is modelled as the set of the indices  *)
(* of its set bits, a subset of 0..63; bit i is square i, with             *)
(* index = file * 8 + rank.  An Option<T> is modelled as a sequence of     *)
(* length at most one: <<>> is None and <<x>> is Some(x).  A u32 is        *)
(* modelled as two 16-bit limbs, so that its full width is kept.           *)
(***************************************************************************)
EXTENDS Integers, Sequences, FiniteSets, TLC

VARIABLES
    board,      \* the ChessBoard being played on / validated
    history,    \* the plays not yet undone: [move, state, before]
    last,       \* the last operation on the board: op, the move played, the board
                \* before the play (for an unplay: before the play it undoes), the delta
    builder,    \* the ChessBoardBuilder being converted
    query,      \* the arguments of the last pure-function call
    result,     \* the value returned by the last call
    overflow_checks, \* whether the build panics on integer overflow (debug) or wraps
    magic_moves, \* the statics BISHOP_MAGICS and ROOK_MAGICS, as far as generated
    hash,       \* the running Zobrist hash of the board
    iter        \* the iterator being driven

vars == <<board, history, last, builder, query, result, overflow_checks, magic_moves,
          hash, iter>>

(***************************************************************************)
(* Bounds of the model.                                                    *)
(***************************************************************************)
\* Maximum number of plays not yet undone.
MaxDepth == 2
\* Maximum number of fields rewritten in a position before it is validated.
MaxEdits == 2

(***************************************************************************)
(* Option<T>                                                               *)
(***************************************************************************)
None == <<>>
Some(x) == <<x>>
IsSome(o) == o /= <<>>
Unwrap(o) == o[1]

Min(S) == CHOOSE x \in S : \A y \in S : x <= y

\* F applied to the value of e: e is evaluated once, before F uses it.
Let(e, F(_)) == CHOOSE r \in {F(v) : v \in {e}} : TRUE

(***************************************************************************)
(* u32 arithmetic.  A wide integer is [hi, lo] with value hi * 2^16 + lo   *)
(* and lo in 0..65535; it is a u32 when hi is in 0..65535 too.             *)
(***************************************************************************)
Limb == 2 ^ 16

WNorm(h, l) == [hi |-> h + (l \div Limb), lo |-> l % Limb]
W(n) == WNorm(0, n)
WAdd(a, k) == WNorm(a.hi, a.lo + k)
WDouble(a) == WNorm(2 * a.hi, 2 * a.lo)
WLe(a, b) == a.hi < b.hi \/ (a.hi = b.hi /\ a.lo <= b.lo)
WParity(a) == a.lo % 2
IsU32(a) == a.hi >= 0 /\ a.hi < Limb
\* The value kept by a u32 after a wrapping operation.
U32Wrap(a) == [hi |-> a.hi % Limb, lo |-> a.lo]
U32MAX == [hi |-> Limb - 1, lo |-> Limb - 1]

(***************************************************************************)
(* File, Rank, Square                                                      *)
(***************************************************************************)
Squares == 0 .. 63

FileA == 0
FileB == 1
FileC == 2
FileD == 3
FileE == 4
FileF == 5
FileG == 6
FileH == 7

RankFirst == 0
RankSecond == 1
RankThird == 2
RankFourth == 3
RankFifth == 4
RankSixth == 5
RankSeventh == 6
RankEighth == 7

SquareNew(file, rank) == file * 8 + rank
rank_index(sq) == sq % 8
file_index(sq) == sq \div 8
into_bitboard(sq) == {sq}

(***************************************************************************)
(* Bitboard                                                                *)
(***************************************************************************)
EMPTY == {}
ALL == Squares
RANKS == [r \in 0 .. 7 |-> {s \in Squares : s % 8 = r}]
FILES == [f \in 0 .. 7 |-> {s \in Squares : s \div 8 = f}]

Shl(b, n) == {s + n : s \in {x \in b : x + n <= 63}}
Shr(b, n) == {s - n : s \in {x \in b : x - n >= 0}}
BitXor(a, b) == (a \ b) \cup (b \ a)
count(b) == Cardinality(b)

\* A faulty conversion: a board of several squares gives its lowest square.
try_into_square_lenient(b) ==
    IF count(b) >= 1 THEN [ok |-> TRUE, square |-> Min(b)]
    ELSE [ok |-> FALSE, err |-> "EmptyBoard"]

\* TryInto<Square> for Bitboard
try_into_square(b) ==
    IF count(b) = 1 THEN [ok |-> TRUE, square |-> Min(b)]
    ELSE IF count(b) = 0 THEN [ok |-> FALSE, err |-> "EmptyBoard"]
    ELSE [ok |-> FALSE, err |-> "TooManySquares"]
\* Result::unwrap on a conversion that succeeded
unwrap(r) == r.square

(***************************************************************************)
(* Color, Piece, CastleRights                                              *)
(***************************************************************************)
Colors == {"White", "Black"}
ColorALL == <<"White", "Black">>
ColorIndex(c) == IF c = "White" THEN 0 ELSE 1
Opposite(c) == IF c = "White" THEN "Black" ELSE "White"
first_rank(c) == IF c = "White" THEN RankFirst ELSE RankEighth
second_rank(c) == IF c = "White" THEN RankSecond ELSE RankSeventh
third_rank(c) == IF c = "White" THEN RankThird ELSE RankSixth
fourth_rank(c) == IF c = "White" THEN RankFourth ELSE RankFifth
forward_direction(c) == IF c = "White" THEN "North" ELSE "South"
backward_direction(c) == forward_direction(Opposite(c))

PieceALL == <<"King", "Queen", "Rook", "Bishop", "Knight", "Pawn">>
Pieces == {PieceALL[i] : i \in 1 .. 6}

NoSide == 0
KingSide == 1
QueenSide == 2
BothSides == 3
CastleRightsAll == {NoSide, KingSide, QueenSide, BothSides}

\* index & !to_remove.index, on the two bits of a CastleRights
remove(rights, to_remove) ==
    LET keep0 == (rights % 2 = 1) /\ (to_remove % 2 = 0)
        keep1 == (rights \div 2 = 1) /\ (to_remove \div 2 = 0)
    IN  (IF keep0 THEN 1 ELSE 0) + (IF keep1 THEN 2 ELSE 0)
without_king_side(rights) == remove(rights, KingSide)
without_queen_side(rights) == remove(rights, QueenSide)

unmoved_rooks(rights, color) ==
    LET rank == first_rank(color)
        king_side_square == SquareNew(FileH, rank)
        queen_side_square == SquareNew(FileA, rank)
    IN  CASE rights = NoSide -> EMPTY
          [] rights = KingSide -> {king_side_square}
          [] rights = QueenSide -> {queen_side_square}
          [] rights = BothSides -> {king_side_square, queen_side_square}

(***************************************************************************)
(* Direction                                                               *)
(***************************************************************************)
ROOK_DIRECTIONS == <<"North", "West", "South", "East">>
BISHOP_DIRECTIONS == <<"NorthWest", "SouthWest", "SouthEast", "NorthEast">>
KNIGHT_DIRECTIONS ==
    <<"NorthNorthWest", "NorthWestWest", "SouthWestWest", "SouthSouthWest",
      "SouthSouthEast", "SouthEastEast", "NorthEastEast", "NorthNorthEast">>
ROYALTY_DIRECTIONS == ROOK_DIRECTIONS \o BISHOP_DIRECTIONS
Directions ==
    {ROYALTY_DIRECTIONS[i] : i \in 1 .. 8} \cup {KNIGHT_DIRECTIONS[i] : i \in 1 .. 8}

\* move_board with plain shifts, the ranks left unmasked.
move_board_wrapping(d, b) ==
    CASE d \in {"North", "SouthWestWest"} -> IF d = "North" THEN Shl(b, 1) ELSE Shr(b, 17)
      [] d \in {"West", "NorthWestWest"} -> IF d = "West" THEN Shr(b, 8) ELSE Shr(b, 15)
      [] d \in {"South", "NorthEastEast"} -> IF d = "South" THEN Shr(b, 1) ELSE Shl(b, 17)
      [] d \in {"East", "SouthEastEast"} -> IF d = "East" THEN Shl(b, 8) ELSE Shl(b, 15)
      [] d \in {"NorthWest", "SouthSouthEast"} -> IF d = "NorthWest" THEN Shr(b, 7) ELSE Shl(b, 6)
      [] d \in {"SouthWest", "NorthNorthEast"} -> IF d = "SouthWest" THEN Shr(b, 9) ELSE Shl(b, 10)
      [] d \in {"SouthEast", "NorthNorthWest"} -> IF d = "SouthEast" THEN Shl(b, 7) ELSE Shr(b, 6)
      [] d \in {"NorthEast", "SouthSouthWest"} -> IF d = "NorthEast" THEN Shl(b, 9) ELSE Shr(b, 10)

move_board(d, b) ==
    CASE d = "North" -> Shl(b \ RANKS[RankEighth], 1)
      [] d = "West" -> Shr(b, 8)
      [] d = "South" -> Shr(b \ RANKS[RankFirst], 1)
      [] d = "East" -> Shl(b, 8)
      [] d = "NorthWest" -> Shr(b \ RANKS[RankEighth], 7)
      [] d = "SouthWest" -> Shr(b \ RANKS[RankFirst], 9)
      [] d = "SouthEast" -> Shl(b \ RANKS[RankFirst], 7)
      [] d = "NorthEast" -> Shl(b \ RANKS[RankEighth], 9)
      [] d = "NorthNorthWest" ->
            Shr((b \ RANKS[RankEighth]) \ RANKS[RankSeventh], 6)
      [] d = "NorthWestWest" -> Shr(b \ RANKS[RankEighth], 15)
      [] d = "SouthWestWest" -> Shr(b \ RANKS[RankFirst], 17)
      [] d = "SouthSouthWest" ->
            Shr((b \ RANKS[RankFirst]) \ RANKS[RankSecond], 10)
      [] d = "SouthSouthEast" ->
            Shl((b \ RANKS[RankFirst]) \ RANKS[RankSecond], 6)
      [] d = "SouthEastEast" -> Shl(b \ RANKS[RankFirst], 15)
      [] d = "NorthEastEast" -> Shl(b \ RANKS[RankEighth], 17)
      [] d = "NorthNorthEast" ->
            Shl((b \ RANKS[RankEighth]) \ RANKS[RankSeventh], 10)

\* The while loop of slide_board_with_blockers, entered with the board and the
\* accumulated result.
RECURSIVE SlideLoop(_, _, _, _)
SlideLoop(d, b, blockers, res) ==
    IF b = EMPTY THEN res
    ELSE Let(move_board(d, b), LAMBDA moved :
            IF (moved \cap blockers) /= EMPTY THEN res \cup moved
            ELSE SlideLoop(d, moved, blockers, res \cup moved))

\* A faulty slide: it stops before the blocker instead of on it.
slide_board_before_blockers(d, b, blockers) == SlideLoop(d, b, blockers, EMPTY) \ blockers

slide_board_with_blockers(d, b, blockers) == SlideLoop(d, b, blockers, EMPTY)

\* Union of f over the directions of a sequence.
RECURSIVE UnionMoves(_, _, _)
UnionMoves(dirs, b, i) ==
    IF i > Len(dirs) THEN EMPTY
    ELSE move_board(dirs[i], b) \cup UnionMoves(dirs, b, i + 1)

RECURSIVE UnionSlides(_, _, _, _)
UnionSlides(dirs, b, blockers, i) ==
    IF i > Len(dirs) THEN EMPTY
    ELSE slide_board_with_blockers(dirs[i], b, blockers)
            \cup UnionSlides(dirs, b, blockers, i + 1)

(***************************************************************************)
(* Naive move generators                                                   *)
(***************************************************************************)
naive_knight_moves(sq) == UnionMoves(KNIGHT_DIRECTIONS, into_bitboard(sq), 1)
naive_king_moves(sq) == UnionMoves(ROYALTY_DIRECTIONS, into_bitboard(sq), 1)
\* Faulty bishop attacks: the occupied squares are left out of the set.
naive_bishop_moves_free_only(sq, blockers) ==
    UnionSlides(BISHOP_DIRECTIONS, into_bitboard(sq), blockers, 1) \ blockers
naive_bishop_moves(sq, blockers) ==
    UnionSlides(BISHOP_DIRECTIONS, into_bitboard(sq), blockers, 1)
naive_rook_moves(sq, blockers) ==
    UnionSlides(ROOK_DIRECTIONS, into_bitboard(sq), blockers, 1)

naive_pawn_moves(color, sq, blockers) ==
    IF rank_index(sq) = RankFirst \/ rank_index(sq) = RankEighth THEN EMPTY
    ELSE LET dir == forward_direction(color)
             first_push == move_board(dir, into_bitboard(sq))
             second_push ==
                IF rank_index(sq) = second_rank(color)
                THEN into_bitboard(SquareNew(file_index(sq), fourth_rank(color)))
                ELSE EMPTY
         IN  IF (first_push \cap blockers) = EMPTY
             THEN first_push \cup second_push
             ELSE EMPTY

pawn_captures(color, sq) ==
    IF rank_index(sq) = RankFirst \/ rank_index(sq) = RankEighth THEN EMPTY
    ELSE LET dir == forward_direction(color)
             advanced == move_board(dir, into_bitboard(sq))
             attack_west == move_board("West", advanced)
             attack_east == move_board("East", advanced)
         IN  attack_west \cup attack_east

king_castling_moves(color, rights) ==
    LET rank == first_rank(color)
        king_side_square == SquareNew(FileG, rank)
        queen_side_square == SquareNew(FileC, rank)
    IN  CASE rights = NoSide -> EMPTY
          [] rights = KingSide -> {king_side_square}
          [] rights = QueenSide -> {queen_side_square}
          [] rights = BothSides -> {king_side_square, queen_side_square}

(***************************************************************************)
(* Move oracle (movegen/moves.rs): tables built from the naive generators. *)
(***************************************************************************)
knight_moves(sq) == naive_knight_moves(sq)
king_moves(sq) == naive_king_moves(sq)
pawn_attacks(color, sq) == pawn_captures(color, sq)

\* wizardry/mask.rs
generate_bishop_mask(sq) ==
    LET rays == naive_bishop_moves(sq, EMPTY)
        mask == FILES[FileA] \cup FILES[FileH] \cup RANKS[RankFirst]
                    \cup RANKS[RankEighth]
    IN  rays \ mask

\* A faulty generate_rook_mask: the four edges are dropped wherever the rook is.
generate_rook_mask_all_edges(sq) ==
    LET rays == naive_rook_moves(sq, EMPTY)
        mask == FILES[FileA] \cup FILES[FileH] \cup RANKS[RankFirst]
                    \cup RANKS[RankEighth]
    IN  rays \ mask

generate_rook_mask(sq) ==
    LET rays == naive_rook_moves(sq, EMPTY)
        mask == (IF file_index(sq) /= FileA THEN FILES[FileA] ELSE EMPTY)
                    \cup (IF file_index(sq) /= FileH THEN FILES[FileH] ELSE EMPTY)
                    \cup (IF rank_index(sq) /= RankFirst THEN RANKS[RankFirst] ELSE EMPTY)
                    \cup (IF rank_index(sq) /= RankEighth THEN RANKS[RankEighth] ELSE EMPTY)
    IN  rays \ mask

\* bishop_moves and rook_moves as the position code calls them.  The slot that
\* MagicMoves::query reads for (square, blockers) is the one generate_magics
\* filled with moves_fn(square, blockers & mask); the arithmetic that locates
\* the slot is modelled with the real multipliers under SpecMagic.
bishop_moves(sq, blockers) ==
    naive_bishop_moves(sq, blockers \cap generate_bishop_mask(sq))
rook_moves(sq, blockers) ==
    naive_rook_moves(sq, blockers \cap generate_rook_mask(sq))
queen_moves(sq, blockers) == bishop_moves(sq, blockers) \cup rook_moves(sq, blockers)

pawn_quiet_moves(color, sq, blockers) ==
    IF (move_board(backward_direction(color), blockers) \cap into_bitboard(sq)) /= EMPTY
    THEN EMPTY
    ELSE naive_pawn_moves(color, sq, EMPTY)

(***************************************************************************)
(* ChessBoard (board/chess_board/mod.rs).  piece_occupancy and             *)
(* color_occupancy are functions of the piece and color names, the two     *)
(* counters are u32 values.                                                *)
(***************************************************************************)
Move(start, destination, promotion) ==
    [start |-> start, destination |-> destination, promotion |-> promotion]

occupancy(b, piece, color) == b.piece_occupancy[piece] \cap b.color_occupancy[color]
current_player(b) == b.side

\* Piece::iter().skip(skip).find(|p| p is one of found)
PieceFind(found, skip) ==
    LET idx == {i \in (skip + 1) .. Len(PieceALL) : PieceALL[i] \in found}
    IN  IF idx = {} THEN None ELSE Some(PieceALL[Min(idx)])

\* A faulty xor: the combined board is not toggled.
xor_combined_forgotten(b, color, piece, square) ==
    [b EXCEPT !.piece_occupancy[piece] = BitXor(@, into_bitboard(square)),
              !.color_occupancy[color] = BitXor(@, into_bitboard(square))]

\* A faulty xor: the board of the color is not toggled.
xor_color_forgotten(b, color, piece, square) ==
    [b EXCEPT !.piece_occupancy[piece] = BitXor(@, into_bitboard(square)),
              !.combined_occupancy = BitXor(@, into_bitboard(square))]

xor(b, color, piece, square) ==
    [b EXCEPT !.piece_occupancy[piece] = BitXor(@, into_bitboard(square)),
              !.color_occupancy[color] = BitXor(@, into_bitboard(square)),
              !.combined_occupancy = BitXor(@, into_bitboard(square))]

\* A faulty update_castling: a rook that is taken keeps its side's right.
update_castling_mover_only(b, color, piece, file) ==
    LET original == b.castle_rights[color]
    IN  IF color /= current_player(b) THEN b
        ELSE IF piece = "Rook" /\ file = FileA
        THEN [b EXCEPT !.castle_rights[color] = without_queen_side(original)]
        ELSE IF piece = "Rook" /\ file = FileH
        THEN [b EXCEPT !.castle_rights[color] = without_king_side(original)]
        ELSE IF piece = "King"
        THEN [b EXCEPT !.castle_rights[color] = NoSide]
        ELSE b

\* A faulty update_castling: the two rook files are exchanged.
update_castling_swapped(b, color, piece, file) ==
    LET original == b.castle_rights[color]
    IN  IF piece = "Rook" /\ file = FileA
        THEN [b EXCEPT !.castle_rights[color] = without_king_side(original)]
        ELSE IF piece = "Rook" /\ file = FileH
        THEN [b EXCEPT !.castle_rights[color] = without_queen_side(original)]
        ELSE IF piece = "King"
        THEN [b EXCEPT !.castle_rights[color] = NoSide]
        ELSE b

update_castling(b, color, piece, file) ==
    LET original == b.castle_rights[color]
    IN  IF piece = "Rook" /\ file = FileA
        THEN [b EXCEPT !.castle_rights[color] = without_queen_side(original)]
        ELSE IF piece = "Rook" /\ file = FileH
        THEN [b EXCEPT !.castle_rights[color] = without_king_side(original)]
        ELSE IF piece = "King"
        THEN [b EXCEPT !.castle_rights[color] = NoSide]
        ELSE b

\* play_move_inplace: the half-move clock after the move, before it is cut to
\* 32 bits.
next_half_move_clock(b, captured_piece, move_piece) ==
    IF IsSome(captured_piece) \/ move_piece = "Pawn"
    THEN W(0)
    ELSE WAdd(b.half_move_clock, 1)

\* A faulty next_en_passant: a stale target is kept when the move is no double
\* step.
next_en_passant_stale(b, chess_move, is_double_step) ==
    IF is_double_step
    THEN Some(SquareNew(file_index(chess_move.destination), third_rank(current_player(b))))
    ELSE b.en_passant

\* A faulty next_en_passant: the target is put on the third rank of the
\* opponent of the mover.
next_en_passant_mirrored(b, chess_move, is_double_step) ==
    IF is_double_step
    THEN Some(SquareNew(file_index(chess_move.destination),
                        third_rank(Opposite(current_player(b)))))
    ELSE None

\* play_move_inplace: the en-passant target after the move.
next_en_passant(b, chess_move, is_double_step) ==
    IF is_double_step
    THEN Some(SquareNew(file_index(chess_move.destination), third_rank(current_player(b))))
    ELSE None

\* A faulty play_move_inplace: a pawn stepping onto the en-passant target
\* takes the pawn beside it off the board.
play_move_inplace_taking(b, chess_move, checks) ==
    LET opponent == Opposite(current_player(b))
        move_piece ==
            Unwrap(PieceFind({p \in Pieces :
                (b.piece_occupancy[p] \cap into_bitboard(chess_move.start)) /= EMPTY}, 0))
        captured_piece ==
            PieceFind({p \in Pieces :
                (occupancy(b, p, opponent) \cap into_bitboard(chess_move.destination))
                    /= EMPTY}, 1)
        is_double_step ==
            /\ move_piece = "Pawn"
            /\ rank_index(chess_move.start) = second_rank(current_player(b))
            /\ rank_index(chess_move.destination) = fourth_rank(current_player(b))
        state == [castle_rights |-> b.castle_rights,
                  en_passant |-> b.en_passant,
                  half_move_clock |-> b.half_move_clock,
                  captured_piece |-> captured_piece]
        clock == next_half_move_clock(b, captured_piece, move_piece)
        b1 == [b EXCEPT !.half_move_clock = U32Wrap(clock)]
        b2 == [b1 EXCEPT !.en_passant = next_en_passant(b, chess_move, is_double_step)]
        b3 == update_castling(b2, current_player(b), move_piece,
                              file_index(chess_move.start))
        b4 == IF IsSome(captured_piece)
              THEN update_castling(
                      xor(b3, opponent, Unwrap(captured_piece), chess_move.destination),
                      opponent, Unwrap(captured_piece),
                      file_index(chess_move.destination))
              ELSE b3
        dest_piece == IF IsSome(chess_move.promotion)
                      THEN Unwrap(chess_move.promotion) ELSE move_piece
        taken == SquareNew(file_index(chess_move.destination), rank_index(chess_move.start))
        b4x == IF move_piece = "Pawn" /\ b.en_passant = Some(chess_move.destination)
                    /\ taken \in occupancy(b, "Pawn", opponent)
               THEN xor(b4, opponent, "Pawn", taken)
               ELSE b4
        b5 == xor(b4x, current_player(b), move_piece, chess_move.start)
        b6 == xor(b5, current_player(b), dest_piece, chess_move.destination)
        plies == WAdd(b.total_plies, 1)
        b7 == [b6 EXCEPT !.total_plies = U32Wrap(plies), !.side = Opposite(b.side)]
    IN  [aborted |-> checks /\ (~IsU32(clock) \/ ~IsU32(plies)),
         board |-> b7,
         state |-> state]

\* The returned NonReversibleState and the board afterwards; aborted when an
\* overflowing counter makes the call panic.
play_move_inplace(b, chess_move, checks) ==
    LET opponent == Opposite(current_player(b))
        move_piece ==
            Unwrap(PieceFind({p \in Pieces :
                (b.piece_occupancy[p] \cap into_bitboard(chess_move.start)) /= EMPTY}, 0))
        captured_piece ==
            PieceFind({p \in Pieces :
                (occupancy(b, p, opponent) \cap into_bitboard(chess_move.destination))
                    /= EMPTY}, 1)
        is_double_step ==
            /\ move_piece = "Pawn"
            /\ rank_index(chess_move.start) = second_rank(current_player(b))
            /\ rank_index(chess_move.destination) = fourth_rank(current_player(b))
        state == [castle_rights |-> b.castle_rights,
                  en_passant |-> b.en_passant,
                  half_move_clock |-> b.half_move_clock,
                  captured_piece |-> captured_piece]
        clock == next_half_move_clock(b, captured_piece, move_piece)
        b1 == [b EXCEPT !.half_move_clock = U32Wrap(clock)]
        b2 == [b1 EXCEPT !.en_passant = next_en_passant(b, chess_move, is_double_step)]
        b3 == update_castling(b2, current_player(b), move_piece,
                              file_index(chess_move.start))
        b4 == IF IsSome(captured_piece)
              THEN update_castling(
                      xor(b3, opponent, Unwrap(captured_piece), chess_move.destination),
                      opponent, Unwrap(captured_piece),
                      file_index(chess_move.destination))
              ELSE b3
        dest_piece == IF IsSome(chess_move.promotion)
                      THEN Unwrap(chess_move.promotion) ELSE move_piece
        b5 == xor(b4, current_player(b), move_piece, chess_move.start)
        b6 == xor(b5, current_player(b), dest_piece, chess_move.destination)
        plies == WAdd(b.total_plies, 1)
        b7 == [b6 EXCEPT !.total_plies = U32Wrap(plies), !.side = Opposite(b.side)]
    IN  [aborted |-> checks /\ (~IsU32(clock) \/ ~IsU32(plies)),
         board |-> b7,
         state |-> state]

\* A faulty restore_captured: the captured piece is not put back.
restore_captured_forgotten(b, chess_move, previous) == b

\* unplay_move: the captured piece put back on the destination.
restore_captured(b, chess_move, previous) ==
    IF IsSome(previous.captured_piece)
    THEN xor(b, current_player(b), Unwrap(previous.captured_piece), chess_move.destination)
    ELSE b

\* The board afterwards; aborted when the ply counter underflows and the call
\* panics.
unplay_move(b, chess_move, previous, checks) ==
    LET b1 == [b EXCEPT !.castle_rights = previous.castle_rights,
                        !.en_passant = previous.en_passant,
                        !.half_move_clock = previous.half_move_clock]
        move_piece ==
            Unwrap(PieceFind({p \in Pieces :
                (b.piece_occupancy[p] \cap into_bitboard(chess_move.destination))
                    /= EMPTY}, 0))
        b2 == restore_captured(b1, chess_move, previous)
        start_piece == IF IsSome(chess_move.promotion) THEN "Pawn" ELSE move_piece
        b3 == xor(b2, Opposite(current_player(b)), move_piece, chess_move.destination)
        b4 == xor(b3, Opposite(current_player(b)), start_piece, chess_move.start)
        plies == WAdd(b.total_plies, -1)
    IN  [aborted |-> checks /\ ~IsU32(plies),
         board |-> [b4 EXCEPT !.total_plies = U32Wrap(plies),
                              !.side = Opposite(b.side)]]

\* ChessBoard::compute_checkers
compute_checkers(b, color) ==
    LET king == unwrap(try_into_square(occupancy(b, "King", color)))
        opponent == Opposite(color)
        bishops ==
            LET queens == occupancy(b, "Queen", opponent)
                bishop_pieces == occupancy(b, "Bishop", opponent)
                bishop_attacks == bishop_moves(king, b.combined_occupancy)
            IN  (queens \cup bishop_pieces) \cap bishop_attacks
        rooks ==
            LET queens == occupancy(b, "Queen", opponent)
                rook_pieces == occupancy(b, "Rook", opponent)
                rook_attacks == rook_moves(king, b.combined_occupancy)
            IN  (queens \cup rook_pieces) \cap rook_attacks
        knights ==
            LET knight_pieces == occupancy(b, "Knight", opponent)
                knight_attacks == knight_moves(king)
            IN  knight_pieces \cap knight_attacks
        pawns ==
            LET pawn_pieces == occupancy(b, "Pawn", opponent)
                attacks == pawn_attacks(color, king)
            IN  pawn_pieces \cap attacks
    IN  bishops \cup rooks \cup knights \cup pawns

checkers(b) == compute_checkers(b, current_player(b))

\* Faulty piece counts: a color without a king is let through.
validate_counts_king_unchecked(b, color) ==
    LET possible(piece) ==
            LET n == count(occupancy(b, piece, color))
            IN  CASE piece = "King" -> n <= 1
                  [] piece = "Pawn" -> n <= 8
                  [] piece = "Queen" -> n <= 9
                  [] OTHER -> n <= 10
    IN  IF \E piece \in Pieces : ~possible(piece) THEN Some("TooManyPieces")
        ELSE IF count(b.color_occupancy[color]) > 16 THEN Some("TooManyPieces")
        ELSE None

\* The checks of validate on one color's piece counts (the body of its first
\* loop over the colors): the error returned, if any.
validate_counts(b, color) ==
    LET possible(piece) ==
            LET n == count(occupancy(b, piece, color))
            IN  CASE piece = "King" -> n <= 1
                  [] piece = "Pawn" -> n <= 8
                  [] piece = "Queen" -> n <= 9
                  [] OTHER -> n <= 10
    IN  IF \E piece \in Pieces : ~possible(piece) THEN Some("TooManyPieces")
        ELSE IF count(occupancy(b, "King", color)) /= 1 THEN Some("MissingKing")
        ELSE IF count(b.color_occupancy[color]) > 16 THEN Some("TooManyPieces")
        ELSE None

\* The body of its loop over the colors' castling rights.
validate_castling(b, color) ==
    LET castle_rights == b.castle_rights[color]
        actual_rooks == occupancy(b, "Rook", color)
        expected_rooks == unmoved_rooks(castle_rights, color)
        actual_king == occupancy(b, "King", color)
        expected_king == SquareNew(FileE, first_rank(color))
    IN  IF castle_rights = NoSide THEN None
        ELSE IF (expected_rooks \cap actual_rooks) /= expected_rooks
        THEN Some("InvalidCastlingRights")
        ELSE IF actual_king /= into_bitboard(expected_king)
        THEN Some("InvalidCastlingRights")
        ELSE None

\* Its en-passant block.
validate_en_passant(b) ==
    IF ~IsSome(b.en_passant) THEN None
    ELSE LET square == Unwrap(b.en_passant)
             opponent == Opposite(current_player(b))
             opponent_pawns == occupancy(b, "Pawn", opponent)
             double_pushed_pawn ==
                move_board(backward_direction(current_player(b)), into_bitboard(square))
         IN  IF (b.combined_occupancy \cap into_bitboard(square)) /= EMPTY
             THEN Some("InvalidEnPassant")
             ELSE IF (into_bitboard(square) \cap RANKS[third_rank(opponent)]) = EMPTY
             THEN Some("InvalidEnPassant")
             ELSE IF (opponent_pawns \cap double_pushed_pawn) = EMPTY
             THEN Some("InvalidEnPassant")
             ELSE None

\* The last two checks of validate, each of which unwraps the square of a
\* king: Result::unwrap panics on a conversion that failed, which is the
\* outcome "Aborted" here.
validate_kings(b) ==
    LET white_king == occupancy(b, "King", "White")
        black_king == occupancy(b, "King", "Black")
        opponent == Opposite(current_player(b))
    IN  IF ~try_into_square(white_king).ok
        THEN "Aborted"
        ELSE IF (king_moves(unwrap(try_into_square(white_king))) \cap black_king) /= EMPTY
        THEN "NeighbouringKings"
        ELSE IF ~try_into_square(occupancy(b, "King", opponent)).ok
        THEN "Aborted"
        ELSE IF compute_checkers(b, opponent) /= EMPTY
        THEN "OpponentInCheck"
        ELSE "Ok"

\* A faulty validate: the two checks on the counters are made last instead of
\* first.
validate_counters_last(b) ==
    LET combined == UNION {b.piece_occupancy[p] : p \in Pieces}
        white_king == occupancy(b, "King", "White")
        black_king == occupancy(b, "King", "Black")
    IN  IF \E piece \in Pieces, other \in Pieces :
                    /\ piece /= other
                    /\ (b.piece_occupancy[piece] \cap b.piece_occupancy[other]) /= EMPTY
        THEN "OverlappingPieces"
        ELSE IF (b.color_occupancy["White"] \cap b.color_occupancy["Black"]) /= EMPTY
        THEN "OverlappingColors"
        ELSE IF combined /= b.combined_occupancy
        THEN "ErroneousCombinedOccupancy"
        ELSE IF combined /= (b.color_occupancy["White"] \cup b.color_occupancy["Black"])
        THEN "ErroneousCombinedOccupancy"
        ELSE IF IsSome(validate_counts(b, "White"))
        THEN Unwrap(validate_counts(b, "White"))
        ELSE IF IsSome(validate_counts(b, "Black"))
        THEN Unwrap(validate_counts(b, "Black"))
        ELSE IF (b.piece_occupancy["Pawn"] \cap (RANKS[RankFirst] \cup RANKS[RankEighth]))
                    /= EMPTY
        THEN "InvalidPawnPosition"
        ELSE IF IsSome(validate_castling(b, "White"))
        THEN Unwrap(validate_castling(b, "White"))
        ELSE IF IsSome(validate_castling(b, "Black"))
        THEN Unwrap(validate_castling(b, "Black"))
        ELSE IF IsSome(validate_en_passant(b))
        THEN Unwrap(validate_en_passant(b))
        ELSE IF (king_moves(unwrap(try_into_square(white_king))) \cap black_king) /= EMPTY
        THEN "NeighbouringKings"
        ELSE IF compute_checkers(b, Opposite(current_player(b))) /= EMPTY
        THEN "OpponentInCheck"
        ELSE IF WParity(b.total_plies) /= ColorIndex(current_player(b))
        THEN "IncoherentPlieCount"
        ELSE IF ~WLe(b.half_move_clock, b.total_plies)
        THEN "HalfMoveClockTooHigh"
        ELSE "Ok"

\* ChessBoard::validate: "Ok" or the ValidationError returned, the checks in
\* the order of the code.
validate(b) ==
    LET combined == UNION {b.piece_occupancy[p] : p \in Pieces}
    IN  IF WParity(b.total_plies) /= ColorIndex(current_player(b))
        THEN "IncoherentPlieCount"
        ELSE IF ~WLe(b.half_move_clock, b.total_plies)
        THEN "HalfMoveClockTooHigh"
        ELSE IF \E piece \in Pieces, other \in Pieces :
                    /\ piece /= other
                    /\ (b.piece_occupancy[piece] \cap b.piece_occupancy[other]) /= EMPTY
        THEN "OverlappingPieces"
        ELSE IF (b.color_occupancy["White"] \cap b.color_occupancy["Black"]) /= EMPTY
        THEN "OverlappingColors"
        ELSE IF combined /= b.combined_occupancy
        THEN "ErroneousCombinedOccupancy"
        ELSE IF combined /= (b.color_occupancy["White"] \cup b.color_occupancy["Black"])
        THEN "ErroneousCombinedOccupancy"
        ELSE IF IsSome(validate_counts(b, "White"))
        THEN Unwrap(validate_counts(b, "White"))
        ELSE IF IsSome(validate_counts(b, "Black"))
        THEN Unwrap(validate_counts(b, "Black"))
        ELSE IF (b.piece_occupancy["Pawn"] \cap (RANKS[RankFirst] \cup RANKS[RankEighth]))
                    /= EMPTY
        THEN "InvalidPawnPosition"
        ELSE IF IsSome(validate_castling(b, "White"))
        THEN Unwrap(validate_castling(b, "White"))
        ELSE IF IsSome(validate_castling(b, "Black"))
        THEN Unwrap(validate_castling(b, "Black"))
        ELSE IF IsSome(validate_en_passant(b))
        THEN Unwrap(validate_en_passant(b))
        ELSE validate_kings(b)

is_valid(b) == validate(b) = "Ok"

\* impl Default for ChessBoard
ChessBoardDefault ==
    [piece_occupancy |->
        [p \in Pieces |->
            CASE p = "King" -> {SquareNew(FileE, RankFirst), SquareNew(FileE, RankEighth)}
              [] p = "Queen" -> {SquareNew(FileD, RankFirst), SquareNew(FileD, RankEighth)}
              [] p = "Rook" -> {SquareNew(FileA, RankFirst), SquareNew(FileA, RankEighth),
                                SquareNew(FileH, RankFirst), SquareNew(FileH, RankEighth)}
              [] p = "Bishop" -> {SquareNew(FileC, RankFirst), SquareNew(FileC, RankEighth),
                                  SquareNew(FileF, RankFirst), SquareNew(FileF, RankEighth)}
              [] p = "Knight" -> {SquareNew(FileB, RankFirst), SquareNew(FileB, RankEighth),
                                  SquareNew(FileG, RankFirst), SquareNew(FileG, RankEighth)}
              [] p = "Pawn" -> RANKS[RankSecond] \cup RANKS[RankSeventh]],
     color_occupancy |->
        [c \in Colors |->
            IF c = "White" THEN RANKS[RankFirst] \cup RANKS[RankSecond]
            ELSE RANKS[RankSeventh] \cup RANKS[RankEighth]],
     combined_occupancy |->
        RANKS[RankFirst] \cup RANKS[RankSecond] \cup RANKS[RankSeventh]
            \cup RANKS[RankEighth],
     castle_rights |-> [c \in Colors |-> BothSides],
     en_passant |-> None,
     half_move_clock |-> W(0),
     total_plies |-> W(0),
     side |-> "White"]

(***************************************************************************)
(* ChessBoardBuilder (board/chess_board/builder.rs).  pieces maps a square *)
(* to None or Some(<<piece, color>>).                                      *)
(***************************************************************************)
ChessBoardBuilderNew ==
    [pieces |-> [sq \in Squares |-> None],
     castle_rights |-> [c \in Colors |-> NoSide],
     en_passant |-> None,
     half_move_clock |-> W(0),
     side |-> "White",
     turn_count |-> W(1)]

\* TryFrom<ChessBoardBuilder> for ChessBoard: aborted when the ply computation
\* overflows and the build panics on overflow; otherwise the board built and
\* the outcome of its validation.
try_from(bld, checks) ==
    LET piece_occupancy ==
            [p \in Pieces |->
                {sq \in Squares : IsSome(bld.pieces[sq]) /\ Unwrap(bld.pieces[sq])[1] = p}]
        color_occupancy ==
            [c \in Colors |->
                {sq \in Squares : IsSome(bld.pieces[sq]) /\ Unwrap(bld.pieces[sq])[2] = c}]
        combined_occupancy == {sq \in Squares : IsSome(bld.pieces[sq])}
        minus_one == WAdd(bld.turn_count, -1)
        doubled == WDouble(U32Wrap(minus_one))
        total == WAdd(U32Wrap(doubled), IF bld.side = "White" THEN 0 ELSE 1)
        b == [piece_occupancy |-> piece_occupancy,
              color_occupancy |-> color_occupancy,
              combined_occupancy |-> combined_occupancy,
              castle_rights |-> bld.castle_rights,
              en_passant |-> bld.en_passant,
              half_move_clock |-> bld.half_move_clock,
              total_plies |-> U32Wrap(total),
              side |-> bld.side]
    IN  [aborted |-> checks /\ (~IsU32(minus_one) \/ ~IsU32(doubled) \/ ~IsU32(total)),
         board |-> b,
         outcome |-> validate(b)]

\* builder[square] = Some((piece, color)), for each <<square, piece, color>>
with_pieces(bld, placements) ==
    [bld EXCEPT !.pieces =
        [sq \in Squares |->
            IF \E pl \in placements : pl[1] = sq
            THEN LET pl == CHOOSE x \in placements : x[1] = sq
                 IN  Some(<<pl[2], pl[3]>>)
            ELSE bld.pieces[sq]]]
with_castle_rights(bld, rights, color) == [bld EXCEPT !.castle_rights[color] = rights]
with_en_passant(bld, square) == [bld EXCEPT !.en_passant = Some(square)]
without_en_passant(bld) == [bld EXCEPT !.en_passant = None]
with_half_move_clock(bld, clock) == [bld EXCEPT !.half_move_clock = clock]
with_turn_count(bld, n) == [bld EXCEPT !.turn_count = n]
with_current_player(bld, color) == [bld EXCEPT !.side = color]

(***************************************************************************)
(* Squares named in the positions below (the Square enum).                 *)
(***************************************************************************)
A1 == SquareNew(FileA, RankFirst)
A2 == SquareNew(FileA, RankSecond)
A3 == SquareNew(FileA, RankThird)
A4 == SquareNew(FileA, RankFourth)
A5 == SquareNew(FileA, RankFifth)
A6 == SquareNew(FileA, RankSixth)
A7 == SquareNew(FileA, RankSeventh)
A8 == SquareNew(FileA, RankEighth)
B3 == SquareNew(FileB, RankThird)
B4 == SquareNew(FileB, RankFourth)
B5 == SquareNew(FileB, RankFifth)
B6 == SquareNew(FileB, RankSixth)
D1 == SquareNew(FileD, RankFirst)
D2 == SquareNew(FileD, RankSecond)
D3 == SquareNew(FileD, RankThird)
D5 == SquareNew(FileD, RankFifth)
D6 == SquareNew(FileD, RankSixth)
D7 == SquareNew(FileD, RankSeventh)
D8 == SquareNew(FileD, RankEighth)
E1 == SquareNew(FileE, RankFirst)
E2 == SquareNew(FileE, RankSecond)
E3 == SquareNew(FileE, RankThird)
E4 == SquareNew(FileE, RankFourth)
E5 == SquareNew(FileE, RankFifth)
E6 == SquareNew(FileE, RankSixth)
E7 == SquareNew(FileE, RankSeventh)
E8 == SquareNew(FileE, RankEighth)
F3 == SquareNew(FileF, RankThird)
G1 == SquareNew(FileG, RankFirst)
H1 == SquareNew(FileH, RankFirst)
H8 == SquareNew(FileH, RankEighth)

(***************************************************************************)
(* The game: a position made by Default or by a builder, then plays and    *)
(* the matching unplays.                                                   *)
(***************************************************************************)
\* "r3k2r/8/8/8/8/8/8/R3K2R w KQkq - 0 1"
CastlingBuilder ==
    with_castle_rights(with_castle_rights(
        with_pieces(ChessBoardBuilderNew,
            {<<A1, "Rook", "White">>, <<E1, "King", "White">>, <<H1, "Rook", "White">>,
             <<A8, "Rook", "Black">>, <<E8, "King", "Black">>, <<H8, "Rook", "Black">>}),
        BothSides, "White"), BothSides, "Black")

\* "3q3k/8/8/8/8/8/8/K2Q4 w - - 0 1"
CaptureBuilder ==
    with_pieces(ChessBoardBuilderNew,
        {<<A1, "King", "White">>, <<D1, "Queen", "White">>,
         <<D8, "Queen", "Black">>, <<H8, "King", "Black">>})

\* "7k/P7/8/8/8/8/8/K7 w - - 0 1"
PromotionBuilder ==
    with_pieces(ChessBoardBuilderNew,
        {<<A1, "King", "White">>, <<A7, "Pawn", "White">>, <<H8, "King", "Black">>})

\* "4k3/8/8/3pP3/R7/8/8/R3K2R w KQ d6 0 3"
EnPassantBuilder ==
    with_turn_count(with_en_passant(with_castle_rights(
        with_pieces(ChessBoardBuilderNew,
            {<<A1, "Rook", "White">>, <<A4, "Rook", "White">>, <<E1, "King", "White">>,
             <<H1, "Rook", "White">>, <<E5, "Pawn", "White">>,
             <<D5, "Pawn", "Black">>, <<E8, "King", "Black">>}),
        BothSides, "White"), D6), W(3))

\* "r3k3/8/8/8/8/8/8/4K2R b Kq - 7 2147483648": the last turn a u32 ply counter holds
LastTurnBuilder ==
    with_current_player(with_turn_count(with_half_move_clock(
        with_castle_rights(with_castle_rights(
            with_pieces(ChessBoardBuilderNew,
                {<<E1, "King", "White">>, <<H1, "Rook", "White">>,
                 <<A8, "Rook", "Black">>, <<E8, "King", "Black">>}),
            KingSide, "White"), QueenSide, "Black"),
        W(7)), [hi |-> Limb \div 2, lo |-> 0]), "Black")

\* "rnbqkbnr/pppppppp/8/8/4P3/8/PPPP1PPP/RNBQKBNR b KQkq e3 0 1"
AfterE4Builder ==
    with_current_player(with_en_passant(with_castle_rights(with_castle_rights(
        with_pieces(ChessBoardBuilderNew,
            {<<IF sq = E2 THEN E4 ELSE sq,
               Unwrap(PieceFind({p \in Pieces : sq \in ChessBoardDefault.piece_occupancy[p]}, 0)),
               IF sq \in ChessBoardDefault.color_occupancy["White"] THEN "White" ELSE "Black">> :
                sq \in ChessBoardDefault.combined_occupancy}),
        BothSides, "White"), BothSides, "Black"), E3), "Black")

GameBuilders ==
    {CastlingBuilder, CaptureBuilder, PromotionBuilder, EnPassantBuilder, LastTurnBuilder,
     AfterE4Builder}

\* The positions a game starts from: Default, and what the builders convert to.
GameBoards ==
    {ChessBoardDefault}
        \cup {try_from(bld, TRUE).board :
                bld \in {x \in GameBuilders :
                            ~try_from(x, TRUE).aborted /\ try_from(x, TRUE).outcome = "Ok"}}

\* The piece standing on a square, as play_move_inplace infers it.
piece_on(b, sq) ==
    Unwrap(PieceFind({p \in Pieces : sq \in b.piece_occupancy[p]}, 0))

\* Where the piece of the side to move standing on start may be sent: the
\* squares the move oracle gives for it, a king's two-file leaps, a pawn's
\* diagonal steps onto a piece or onto the en-passant target; never a square
\* of its own side nor the opponent's king.
destinations(b, start) ==
    LET side == current_player(b)
        piece == piece_on(b, start)
        ep == IF IsSome(b.en_passant) THEN into_bitboard(Unwrap(b.en_passant)) ELSE EMPTY
        reach ==
            CASE piece = "King" ->
                    king_moves(start) \cup king_castling_moves(side, b.castle_rights[side])
              [] piece = "Queen" -> queen_moves(start, b.combined_occupancy)
              [] piece = "Rook" -> rook_moves(start, b.combined_occupancy)
              [] piece = "Bishop" -> bishop_moves(start, b.combined_occupancy)
              [] piece = "Knight" -> knight_moves(start)
              [] piece = "Pawn" ->
                    pawn_quiet_moves(side, start, b.combined_occupancy)
                        \cup (pawn_attacks(side, start) \cap (b.combined_occupancy \cup ep))
    IN  (reach \ b.color_occupancy[side]) \ occupancy(b, "King", Opposite(side))

\* The promotions a move may carry: any piece, for a pawn reaching the last rank.
promotions(b, start, destination) ==
    IF piece_on(b, start) = "Pawn"
        /\ rank_index(destination) = first_rank(Opposite(current_player(b)))
    THEN {None} \cup {Some(p) : p \in Pieces}
    ELSE {None}

Moves(b) ==
    {Move(m[1], m[2], m[3]) :
        m \in UNION {UNION {{<<start, dest, promo>> : promo \in promotions(b, start, dest)} :
                        dest \in destinations(b, start)} :
                     start \in b.color_occupancy[current_player(b)]}}

NoMove == Move(0, 0, None)
NoState ==
    [castle_rights |-> [c \in Colors |-> NoSide], en_passant |-> None,
     half_move_clock |-> W(0), captured_piece |-> None]
NoBuilder == ChessBoardBuilderNew
NoQuery == <<>>
NoResult == <<>>
NoMagicMoves == <<>>
NoHash == {}
NoIter == <<>>

Init ==
    /\ board \in GameBoards
    /\ overflow_checks \in BOOLEAN
    /\ magic_moves = NoMagicMoves
    /\ hash = NoHash
    /\ iter = NoIter
    /\ history = <<>>
    /\ last = [op |-> "new", move |-> NoMove, before |-> board, state |-> NoState]
    /\ builder = NoBuilder
    /\ query = NoQuery
    /\ result = NoResult

\* position.play_move_inplace(m), the delta kept for the matching unplay.
Play ==
    /\ last.op /= "abort"
    /\ Len(history) < MaxDepth
    /\ \E m \in Moves(board) :
        LET r == play_move_inplace(board, m, overflow_checks)
        IN  IF r.aborted
            THEN /\ last' = [op |-> "abort", move |-> m, before |-> board, state |-> r.state]
                 /\ UNCHANGED <<board, history>>
            ELSE /\ board' = r.board
                 /\ history' = Append(history, [move |-> m, state |-> r.state,
                                                before |-> board])
                 /\ last' = [op |-> "play", move |-> m, before |-> board,
                             state |-> r.state]
    /\ UNCHANGED <<builder, query, result, overflow_checks, magic_moves, hash, iter>>

\* position.unplay_move(m, state) for the most recent play not yet undone.
Unplay ==
    /\ last.op /= "abort"
    /\ history /= <<>>
    /\ LET h == history[Len(history)]
           r == unplay_move(board, h.move, h.state, overflow_checks)
       IN  IF r.aborted
           THEN /\ last' = [op |-> "abort", move |-> h.move, before |-> board,
                            state |-> h.state]
                /\ UNCHANGED <<board, history>>
           ELSE /\ board' = r.board
                /\ history' = SubSeq(history, 1, Len(history) - 1)
                /\ last' = [op |-> "unplay", move |-> NoMove, before |-> h.before,
                            state |-> h.state]
    /\ UNCHANGED <<builder, query, result, overflow_checks, magic_moves, hash, iter>>

Next == Play \/ Unplay

Spec == Init /\ [][Next]_vars

(***************************************************************************)
(* Properties of play and unplay, checked under Spec.                      *)
(***************************************************************************)
\* C1: after each unplay_move, called with the move and the delta of the most
\* recent play not yet undone, the position is exactly the one that held before
\* that play: piece, color and combined boards, castling rights, en-passant
\* square, half-move clock, ply counter and side to move.
C1_PlayUnplayIdentity == last.op = "unplay" => board = last.before

\* C1: a capture played second of two plays has been undone.
C1_Witness ==
    /\ last.op = "unplay"
    /\ Len(history) = 1
    /\ IsSome(last.state.captured_piece)
    /\ board = last.before

\* The sides a CastleRights value allows.
RightsSides(rights) ==
    (IF rights \in {KingSide, BothSides} THEN {"king"} ELSE {})
        \cup (IF rights \in {QueenSide, BothSides} THEN {"queen"} ELSE {})

\* The sides a rook of a back-rank file stands for.
RookSide(file) ==
    IF file = FileA THEN {"queen"} ELSE IF file = FileH THEN {"king"} ELSE {}

\* C7: a play changes the castling rights exactly so: the mover loses both when
\* a king moves, and the side of file A or H when a rook starting there moves;
\* the opponent loses the side of file A or H when a rook of theirs is captured
\* there; nothing else changes.  From rooks on A1/H1/A8/H8, kings on E1/E8 and
\* all rights, H1->H8 leaves queen-side for White and queen-side for Black.
C7_CastlingRights ==
    last.op = "play" =>
        LET before == last.before
            mover == before.side
            opponent == Opposite(mover)
            moved == piece_on(before, last.move.start)
            rook_taken == last.move.destination \in occupancy(before, "Rook", opponent)
            lost_by_mover ==
                CASE moved = "King" -> {"king", "queen"}
                  [] moved = "Rook" -> RookSide(file_index(last.move.start))
                  [] OTHER -> {}
            lost_by_opponent ==
                IF rook_taken THEN RookSide(file_index(last.move.destination)) ELSE {}
        IN  /\ RightsSides(board.castle_rights[mover])
                = RightsSides(before.castle_rights[mover]) \ lost_by_mover
            /\ RightsSides(board.castle_rights[opponent])
                = RightsSides(before.castle_rights[opponent]) \ lost_by_opponent
            /\ (before = try_from(CastlingBuilder, TRUE).board
                    /\ last.move = Move(H1, H8, None))
                => (board.castle_rights["White"] = QueenSide
                        /\ board.castle_rights["Black"] = QueenSide)

\* C7: the capture H1->H8 has been played from the position with all rights.
C7_Witness ==
    /\ last.op = "play"
    /\ last.before = try_from(CastlingBuilder, TRUE).board
    /\ last.move = Move(H1, H8, None)
    /\ board.castle_rights = [c \in Colors |-> QueenSide]

\* C8: after a play, en_passant is Some(the square of the destination's file on
\* the mover's third rank) exactly when a pawn went from the mover's second rank
\* to the mover's fourth rank, and None otherwise, whatever it was before.
\* From the start: E2->E4 gives E3, then C7->C5 gives C6, then G1->F3 none.
C8_EnPassant ==
    last.op = "play" =>
        LET before == last.before
            mover == before.side
            double_step ==
                /\ piece_on(before, last.move.start) = "Pawn"
                /\ rank_index(last.move.start) = second_rank(mover)
                /\ rank_index(last.move.destination) = fourth_rank(mover)
        IN  /\ double_step =>
                /\ IsSome(board.en_passant)
                /\ file_index(Unwrap(board.en_passant)) = file_index(last.move.destination)
                /\ rank_index(Unwrap(board.en_passant)) = third_rank(mover)
            /\ ~double_step => board.en_passant = None
            /\ (before = ChessBoardDefault /\ last.move = Move(E2, E4, None))
                => board.en_passant = Some(E3)
            /\ (before.en_passant = Some(E3)
                    /\ last.move = Move(SquareNew(FileC, RankSeventh),
                                        SquareNew(FileC, RankFifth), None))
                => board.en_passant = Some(SquareNew(FileC, RankSixth))
            /\ last.move = Move(G1, F3, None) => board.en_passant = None

\* C8: G1->F3 has been played after E2-E4 and C7->C5, and cleared the target C6.
C8_Witness ==
    /\ last.op = "play"
    /\ last.move = Move(G1, F3, None)
    /\ last.before.en_passant = Some(SquareNew(FileC, RankSixth))
    /\ Len(history) = 2
    /\ history[1].move
            = Move(SquareNew(FileC, RankSeventh), SquareNew(FileC, RankFifth), None)
    /\ history[1].before.en_passant = Some(E3)
    /\ board.en_passant = None

\* C9: every play_move_inplace completes with the half-move clock at 0 if the
\* move captures or moves a pawn and at its previous value plus 1 otherwise,
\* with total_plies exactly 1 higher, and with the side flipped.
C9_Counters ==
    /\ last.op /= "abort"
    /\ last.op = "play" =>
        LET before == last.before
            resets ==
                \/ piece_on(before, last.move.start) = "Pawn"
                \/ last.move.destination \in before.color_occupancy[Opposite(before.side)]
        IN  /\ board.half_move_clock
                = IF resets THEN W(0) ELSE WAdd(before.half_move_clock, 1)
            /\ board.total_plies = WAdd(before.total_plies, 1)
            /\ board.side = Opposite(before.side)

\* C9: a play has been attempted on the position whose ply counter is at the
\* last value of a u32, and did not leave it 1 higher.
C9_Witness ==
    /\ last.op \in {"play", "abort"}
    /\ last.before.total_plies = U32MAX
    /\ board.total_plies /= WAdd(last.before.total_plies, 1)

(***************************************************************************)
(* Validation: a position whose fields are written one by one, as by a     *)
(* struct literal, then handed to validate or asked for its checkers.      *)
(***************************************************************************)
\* "4k3/8/8/8/8/8/8/4K3 w - - 0 1"
KingsBuilder ==
    with_pieces(ChessBoardBuilderNew, {<<E1, "King", "White">>, <<E8, "King", "Black">>})

\* "4k3/3P4/8/8/8/8/8/4K3 b - - 0 1": a pawn on D7 beside the king on E8
PawnBuilder ==
    with_current_player(
        with_pieces(ChessBoardBuilderNew,
            {<<E1, "King", "White">>, <<D7, "Pawn", "White">>, <<E8, "King", "Black">>}),
        "Black")

\* "4k3/8/8/8/4K3/8/8/8 w - - 0 1" with the white king moved next to the black one
NeighboursBuilder ==
    with_pieces(ChessBoardBuilderNew, {<<E7, "King", "White">>, <<E8, "King", "Black">>})

\* The position of the test `checkers`.
CheckersBuilder ==
    with_pieces(ChessBoardBuilderNew,
        {<<SquareNew(FileC, RankFirst), "Knight", "White">>,
         <<D3, "Bishop", "White">>,
         <<E1, "Rook", "White">>, <<E2, "King", "White">>,
         <<SquareNew(FileH, RankSecond), "Queen", "White">>,
         <<G1, "Knight", "Black">>, <<F3, "Bishop", "Black">>,
         <<A2, "Rook", "Black">>, <<E8, "King", "Black">>, <<E7, "Queen", "Black">>})

\* White king on A1, black king on H8, and n white pieces of one kind on squares
\* from which none of them attacks H8.
CrowdSquares == <<A2, A3, A4, A5, A6, B3, B4, B5, B6, D2, D3>>
CrowdBuilder(piece, n) ==
    with_pieces(ChessBoardBuilderNew,
        {<<A1, "King", "White">>, <<H8, "King", "Black">>}
            \cup {<<CrowdSquares[i], piece, "White">> : i \in 1 .. n})

\* For each kind, the largest count validate allows and one more.
CrowdBuilders ==
    {CrowdBuilder("Pawn", n) : n \in {8, 9}}
        \cup {CrowdBuilder("Queen", n) : n \in {9, 10}}
        \cup {CrowdBuilder(p, n) : p \in {"Rook", "Bishop", "Knight"}, n \in {10, 11}}

ValidateBuilders ==
    {KingsBuilder, PawnBuilder, NeighboursBuilder, CheckersBuilder, CastlingBuilder,
     EnPassantBuilder} \cup CrowdBuilders

\* The boards the builders make, whatever validate says of them.
ValidateBoards ==
    {ChessBoardDefault} \cup {try_from(bld, TRUE).board : bld \in ValidateBuilders}

\* The field writes: a square toggled in one piece board, in one color board or
\* in the combined board alone; a piece added or removed in the three boards
\* together; castling rights, en-passant square, clocks and side set.
EditSquares == {E1, A4, A8, D7, E7}
Edits ==
    {[kind |-> "piece", piece |-> "Queen", square |-> sq] : sq \in EditSquares}
        \cup {[kind |-> "color", color |-> "Black", square |-> sq] : sq \in EditSquares}
        \cup {[kind |-> "combined", square |-> sq] : sq \in EditSquares}
        \cup {[kind |-> "put", piece |-> p, color |-> c, square |-> sq] :
                p \in {"King", "Queen", "Rook", "Pawn"}, c \in Colors, sq \in EditSquares}
        \cup {[kind |-> "rights", color |-> c, rights |-> r] :
                c \in Colors, r \in {NoSide, KingSide, BothSides}}
        \cup {[kind |-> "en_passant", en_passant |-> ep] :
                ep \in {None, Some(A4), Some(D6), Some(E3)}}
        \cup {[kind |-> "half_move_clock", clock |-> W(n)] : n \in {0, 9}}
        \cup {[kind |-> "total_plies", plies |-> W(n)] : n \in {0, 1, 4}}
        \cup {[kind |-> "side"]}

apply_edit(b, e) ==
    CASE e.kind = "piece" ->
            [b EXCEPT !.piece_occupancy[e.piece] = BitXor(@, into_bitboard(e.square))]
      [] e.kind = "color" ->
            [b EXCEPT !.color_occupancy[e.color] = BitXor(@, into_bitboard(e.square))]
      [] e.kind = "combined" ->
            [b EXCEPT !.combined_occupancy = BitXor(@, into_bitboard(e.square))]
      [] e.kind = "put" -> xor(b, e.color, e.piece, e.square)
      [] e.kind = "rights" -> [b EXCEPT !.castle_rights[e.color] = e.rights]
      [] e.kind = "en_passant" -> [b EXCEPT !.en_passant = e.en_passant]
      [] e.kind = "half_move_clock" -> [b EXCEPT !.half_move_clock = e.clock]
      [] e.kind = "total_plies" -> [b EXCEPT !.total_plies = e.plies]
      [] e.kind = "side" -> [b EXCEPT !.side = Opposite(@)]

InitValidate ==
    /\ board \in ValidateBoards
    /\ overflow_checks = TRUE
    /\ magic_moves = NoMagicMoves
    /\ hash = NoHash
    /\ iter = NoIter
    /\ history = <<>>
    /\ last = [op |-> "new", edits |-> 0]
    /\ builder = NoBuilder
    /\ query = NoQuery
    /\ result = NoResult

\* One more field of the position is written.
Edit ==
    /\ last.op \in {"new", "edit"}
    /\ last.edits < MaxEdits
    /\ \E e \in Edits :
        /\ board' = apply_edit(board, e)
        /\ board' /= board
    /\ last' = [op |-> "edit", edits |-> last.edits + 1]
    /\ UNCHANGED <<history, builder, query, result, overflow_checks, magic_moves, hash, iter>>

\* position.validate()
Validate ==
    /\ last.op \in {"new", "edit"}
    /\ result' = validate(board)
    /\ last' = [last EXCEPT !.op = "validate"]
    /\ UNCHANGED <<board, history, builder, query, overflow_checks, magic_moves, hash, iter>>

\* position.compute_checkers(color), which unwraps the square of color's king
Checkers ==
    /\ last.op \in {"new", "edit"}
    /\ \E color \in Colors :
        /\ count(occupancy(board, "King", color)) = 1
        /\ query' = color
        /\ result' = compute_checkers(board, color)
    /\ last' = [last EXCEPT !.op = "compute_checkers"]
    /\ UNCHANGED <<board, history, builder, overflow_checks, magic_moves, hash, iter>>

NextValidate == Edit \/ Validate \/ Checkers

SpecValidate == InitValidate /\ [][NextValidate]_vars

(***************************************************************************)
(* The ten invariants of a position, as the data model states them.        *)
(***************************************************************************)
\* The squares from which a piece of the given kind and color attacks, found
\* with the naive generators and the combined occupancy as blockers.
PseudoAttacks(b, piece, color, sq) ==
    CASE piece = "Queen" ->
            naive_bishop_moves(sq, b.combined_occupancy)
                \cup naive_rook_moves(sq, b.combined_occupancy)
      [] piece = "Rook" -> naive_rook_moves(sq, b.combined_occupancy)
      [] piece = "Bishop" -> naive_bishop_moves(sq, b.combined_occupancy)
      [] piece = "Knight" -> naive_knight_moves(sq)
      [] piece = "Pawn" -> pawn_captures(color, sq)

\* The squares holding a queen, rook, bishop, knight or pawn of the opponent of
\* color whose pseudo-attack set contains a square of color's king.
Attackers(b, color) ==
    {sq \in Squares :
        \E piece \in Pieces \ {"King"} :
            /\ sq \in occupancy(b, piece, Opposite(color))
            /\ (PseudoAttacks(b, piece, Opposite(color), sq)
                    \cap occupancy(b, "King", color)) /= EMPTY}

Adjacent(s, t) ==
    /\ s /= t
    /\ file_index(s) - file_index(t) \in {-1, 0, 1}
    /\ rank_index(s) - rank_index(t) \in {-1, 0, 1}

PiecesOverlap(b) ==
    \E p \in Pieces, q \in Pieces :
        p /= q /\ (b.piece_occupancy[p] \cap b.piece_occupancy[q]) /= EMPTY
ColorsOverlap(b) == (b.color_occupancy["White"] \cap b.color_occupancy["Black"]) /= EMPTY
CombinedWrong(b) ==
    \/ b.combined_occupancy /= UNION {b.piece_occupancy[p] : p \in Pieces}
    \/ b.combined_occupancy /= UNION {b.color_occupancy[c] : c \in Colors}
TooMany(b) ==
    \E c \in Colors :
        \/ count(occupancy(b, "King", c)) > 1
        \/ count(occupancy(b, "Pawn", c)) > 8
        \/ count(occupancy(b, "Queen", c)) > 9
        \/ \E p \in {"Rook", "Bishop", "Knight"} : count(occupancy(b, p, c)) > 10
        \/ count(b.color_occupancy[c]) > 16
NoKing(b) == \E c \in Colors : occupancy(b, "King", c) = EMPTY
PawnOnEdgeRank(b) ==
    \E sq \in b.piece_occupancy["Pawn"] : rank_index(sq) \in {RankFirst, RankEighth}
CastlingWrong(b) ==
    \E c \in Colors :
        /\ b.castle_rights[c] /= NoSide
        /\ \/ occupancy(b, "King", c) /= {SquareNew(FileE, first_rank(c))}
           \/ /\ b.castle_rights[c] \in {KingSide, BothSides}
              /\ SquareNew(FileH, first_rank(c)) \notin occupancy(b, "Rook", c)
           \/ /\ b.castle_rights[c] \in {QueenSide, BothSides}
              /\ SquareNew(FileA, first_rank(c)) \notin occupancy(b, "Rook", c)
EnPassantWrong(b) ==
    /\ IsSome(b.en_passant)
    /\ LET s == Unwrap(b.en_passant)
           opponent == Opposite(b.side)
       IN  \/ s \in b.combined_occupancy
           \/ rank_index(s) /= third_rank(opponent)
           \/ SquareNew(file_index(s), fourth_rank(opponent))
                \notin occupancy(b, "Pawn", opponent)
KingsTouch(b) ==
    \E s \in occupancy(b, "King", "White"), t \in occupancy(b, "King", "Black") :
        Adjacent(s, t)
OpponentChecked(b) == Attackers(b, Opposite(b.side)) /= EMPTY
ParityWrong(b) == b.total_plies.lo % 2 /= (IF b.side = "White" THEN 0 ELSE 1)
ClockTooHigh(b) ==
    \/ b.half_move_clock.hi > b.total_plies.hi
    \/ (b.half_move_clock.hi = b.total_plies.hi /\ b.half_move_clock.lo > b.total_plies.lo)

\* The invariants a position violates, by their number in the data model.
Violated(b) ==
    {i \in 1 .. 10 :
        CASE i = 1 -> PiecesOverlap(b) \/ ColorsOverlap(b)
          [] i = 2 -> CombinedWrong(b)
          [] i = 3 -> TooMany(b) \/ NoKing(b)
          [] i = 4 -> PawnOnEdgeRank(b)
          [] i = 5 -> CastlingWrong(b)
          [] i = 6 -> EnPassantWrong(b)
          [] i = 7 -> KingsTouch(b)
          [] i = 8 -> OpponentChecked(b)
          [] i = 9 -> ParityWrong(b)
          [] i = 10 -> ClockTooHigh(b)}

\* The variants that match what a position violates.
MatchingErrors(b) ==
    (IF PiecesOverlap(b) THEN {"OverlappingPieces"} ELSE {})
        \cup (IF ColorsOverlap(b) THEN {"OverlappingColors"} ELSE {})
        \cup (IF CombinedWrong(b) THEN {"ErroneousCombinedOccupancy"} ELSE {})
        \cup (IF TooMany(b) THEN {"TooManyPieces"} ELSE {})
        \cup (IF NoKing(b) THEN {"MissingKing"} ELSE {})
        \cup (IF PawnOnEdgeRank(b) THEN {"InvalidPawnPosition"} ELSE {})
        \cup (IF CastlingWrong(b) THEN {"InvalidCastlingRights"} ELSE {})
        \cup (IF EnPassantWrong(b) THEN {"InvalidEnPassant"} ELSE {})
        \cup (IF KingsTouch(b) THEN {"NeighbouringKings"} ELSE {})
        \cup (IF OpponentChecked(b) THEN {"OpponentInCheck"} ELSE {})
        \cup (IF ParityWrong(b) THEN {"IncoherentPlieCount"} ELSE {})
        \cup (IF ClockTooHigh(b) THEN {"HalfMoveClockTooHigh"} ELSE {})

\* The variants of one invariant.
VariantsOf(i) ==
    CASE i = 1 -> {"OverlappingPieces", "OverlappingColors"}
      [] i = 2 -> {"ErroneousCombinedOccupancy"}
      [] i = 3 -> {"TooManyPieces", "MissingKing"}
      [] i = 4 -> {"InvalidPawnPosition"}
      [] i = 5 -> {"InvalidCastlingRights"}
      [] i = 6 -> {"InvalidEnPassant"}
      [] i = 7 -> {"NeighbouringKings"}
      [] i = 8 -> {"OpponentInCheck"}
      [] i = 9 -> {"IncoherentPlieCount"}
      [] i = 10 -> {"HalfMoveClockTooHigh"}

(***************************************************************************)
(* Properties of validate and compute_checkers, checked under SpecValidate. *)
(***************************************************************************)
\* C2: in a position with exactly one king per color, compute_checkers(c) is
\* the set of squares holding a queen, rook, bishop, knight or pawn of c's
\* opponent whose pseudo-attack set (naive generators, combined occupancy as
\* blockers) contains the square of c's king, wherever that king stands,
\* ranks 1 and 8 included.
C2_CheckersAreAttackers ==
    (/\ last.op = "compute_checkers"
     /\ \A c \in Colors : count(occupancy(board, "King", c)) = 1)
        => result = Attackers(board, query)

\* C2: the checkers of a king standing on rank 8 have been computed, and miss
\* a pawn that attacks it.
C2_Witness ==
    /\ last.op = "compute_checkers"
    /\ \A c \in Colors : count(occupancy(board, "King", c)) = 1
    /\ occupancy(board, "King", query) = {E8}
    /\ D7 \in occupancy(board, "Pawn", Opposite(query))
    /\ D7 \in Attackers(board, query)
    /\ D7 \notin result

\* C3: the starting position passes validate; a position violating exactly one
\* of the ten invariants is rejected with a variant matching what it violates;
\* and validate returns Ok only when none of the ten is violated.
C3_ValidateMatches ==
    last.op = "validate" =>
        /\ board = ChessBoardDefault => result = "Ok"
        /\ Cardinality(Violated(board)) = 1 => result \in MatchingErrors(board)
        /\ result = "Ok" => Violated(board) = {}

\* C3: validate has returned Ok for a position whose side not to move is in
\* check, the only invariant it violates.
C3_Witness ==
    /\ last.op = "validate"
    /\ Violated(board) = {8}
    /\ result = "Ok"

\* C4 as stated: for a position violating several invariants, validate returns
\* a variant of the lowest-numbered violated invariant, the numbers being those
\* of the data model's list (1 disjointness .. 10 half-move clock).
C4_ListedOrder ==
    (last.op = "validate" /\ Cardinality(Violated(board)) >= 2)
        => result \in VariantsOf(Min(Violated(board)))

\* The order in which validate makes its checks.
CheckOrder == <<9, 10, 1, 2, 3, 4, 5, 6, 7, 8>>
FirstChecked(S) == CheckOrder[Min({k \in 1 .. Len(CheckOrder) : CheckOrder[k] \in S})]

\* C4 amended: validate short-circuits in the order ply parity, half-move clock,
\* disjointness, combined occupancy, piece counts and kings, pawn ranks,
\* castling rights, en-passant, neighbouring kings, opponent in check: for a
\* position violating several invariants it returns a variant of the first
\* violated invariant in that order.
C4_CodeOrder ==
    (last.op = "validate" /\ Cardinality(Violated(board)) >= 2)
        => result \in VariantsOf(FirstChecked(Violated(board)))

\* C4: a position with overlapping boards and an incoherent ply count has been
\* validated, and the ply count was reported.
C4_Witness ==
    /\ last.op = "validate"
    /\ 1 \in Violated(board)
    /\ 9 \in Violated(board)
    /\ result = "IncoherentPlieCount"

(***************************************************************************)
(* Shifting boards: Direction::move_board on its own                       *)
(***************************************************************************)

\* Largest number of squares of the enumerated shifted boards.
MaxMembers == 2

\* The boards that are shifted: every board of at most MaxMembers squares (the
\* 64 singletons among them), every rank, every file, the full board and the
\* full board less one square.
RECURSIVE BoardsUpTo(_)
BoardsUpTo(n) ==
    IF n = 0 THEN {EMPTY}
    ELSE {b \cup {s} : b \in BoardsUpTo(n - 1), s \in Squares}

ShiftBoards ==
    BoardsUpTo(MaxMembers)
        \cup {RANKS[r] : r \in 0 .. 7} \cup {FILES[f] : f \in 0 .. 7}
        \cup {ALL} \cup {ALL \ {s} : s \in Squares}

InitShift ==
    /\ query \in [direction : Directions, board : ShiftBoards]
    /\ result = NoResult
    /\ last = [op |-> "new"]
    /\ board = ChessBoardDefault
    /\ history = <<>>
    /\ builder = NoBuilder
    /\ overflow_checks = TRUE
    /\ magic_moves = NoMagicMoves
    /\ hash = NoHash
    /\ iter = NoIter

\* direction.move_board(board)
MoveBoard ==
    /\ last.op = "new"
    /\ result' = move_board(query.direction, query.board)
    /\ last' = [op |-> "move_board"]
    /\ UNCHANGED <<board, history, builder, query, overflow_checks, magic_moves, hash, iter>>

NextShift == MoveBoard

SpecShift == InitShift /\ [][NextShift]_vars

\* The (file, rank) offset each direction stands for.
Offset(d) ==
    CASE d = "North" -> <<0, 1>>
      [] d = "West" -> <<-1, 0>>
      [] d = "South" -> <<0, -1>>
      [] d = "East" -> <<1, 0>>
      [] d = "NorthWest" -> <<-1, 1>>
      [] d = "SouthWest" -> <<-1, -1>>
      [] d = "SouthEast" -> <<1, -1>>
      [] d = "NorthEast" -> <<1, 1>>
      [] d = "NorthNorthWest" -> <<-1, 2>>
      [] d = "NorthWestWest" -> <<-2, 1>>
      [] d = "SouthWestWest" -> <<-2, -1>>
      [] d = "SouthSouthWest" -> <<-1, -2>>
      [] d = "SouthSouthEast" -> <<1, -2>>
      [] d = "SouthEastEast" -> <<2, -1>>
      [] d = "NorthEastEast" -> <<2, 1>>
      [] d = "NorthNorthEast" -> <<1, 2>>

\* The square at the offset of d from s as a board, empty when off the board.
Target(s, d) ==
    LET f == file_index(s) + Offset(d)[1]
        r == rank_index(s) + Offset(d)[2]
    IN  IF f \in 0 .. 7 /\ r \in 0 .. 7 THEN {SquareNew(f, r)} ELSE EMPTY

\* C6: move_board of a board is the union over its member squares of the
\* square at the direction's (file, rank) offset when that square is on the
\* board and of nothing otherwise (so a singleton gives a singleton or EMPTY,
\* never a wrapped square), and it equals the union of the results of
\* move_board on the singletons of its members.
C6_ShiftsNeverWrap ==
    last.op = "move_board" =>
        /\ result = UNION {Target(s, query.direction) : s \in query.board}
        /\ result = UNION {move_board(query.direction, {s}) : s \in query.board}

\* C6: the board {A7, D5} was moved along NorthNorthEast: A7 has no square two
\* ranks up (a plain shift would land it on C1) and D5 went to E7.
C6_Witness ==
    /\ last.op = "move_board"
    /\ query.board = {A7, D5}
    /\ query.direction = "NorthNorthEast"
    /\ result = {E7}

(***************************************************************************)
(* Building positions: ChessBoardBuilder and its conversion                *)
(***************************************************************************)

\* Largest number of builder calls made before the conversion.
MaxCalls == 2

BuilderBases == {ChessBoardBuilderNew, KingsBuilder, CastlingBuilder, EnPassantBuilder}
PlaceSquares == {A2, D7, E1, E8}
EnPassantSquares == {A4, D6, E3}
ClockValues == {W(0), W(1), U32MAX}
\* 0, 1, 2, 2^31, 2^31 + 1 and 2^32 - 1
TurnCounts ==
    {W(0), W(1), W(2), [hi |-> Limb \div 2, lo |-> 0], [hi |-> Limb \div 2, lo |-> 1],
     U32MAX}

InitBuilder ==
    /\ builder \in BuilderBases
    /\ overflow_checks \in BOOLEAN
    /\ magic_moves = NoMagicMoves
    /\ hash = NoHash
    /\ iter = NoIter
    /\ last = [op |-> "new", calls |-> 0]
    /\ result = NoResult
    /\ board = ChessBoardDefault
    /\ history = <<>>
    /\ query = NoQuery

Called(op) ==
    /\ last.op /= "try_from"
    /\ last.calls < MaxCalls
    /\ last' = [op |-> op, calls |-> last.calls + 1]
    /\ UNCHANGED <<board, history, query, result, overflow_checks, magic_moves, hash, iter>>

\* builder[square] = Some((piece, color))
Place ==
    /\ \E sq \in PlaceSquares, piece \in Pieces, color \in Colors :
        builder' = with_pieces(builder, {<<sq, piece, color>>})
    /\ Called("index_mut")

WithCastleRights ==
    /\ \E rights \in CastleRightsAll, color \in Colors :
        builder' = with_castle_rights(builder, rights, color)
    /\ Called("with_castle_rights")

WithEnPassant ==
    /\ \E sq \in EnPassantSquares : builder' = with_en_passant(builder, sq)
    /\ Called("with_en_passant")

WithoutEnPassant ==
    /\ builder' = without_en_passant(builder)
    /\ Called("without_en_passant")

WithHalfMoveClock ==
    /\ \E clock \in ClockValues : builder' = with_half_move_clock(builder, clock)
    /\ Called("with_half_move_clock")

WithTurnCount ==
    /\ \E n \in TurnCounts : builder' = with_turn_count(builder, n)
    /\ Called("with_turn_count")

WithCurrentPlayer ==
    /\ \E color \in Colors : builder' = with_current_player(builder, color)
    /\ Called("with_current_player")

\* ChessBoard::try_from(builder)
Convert ==
    /\ last.op /= "try_from"
    /\ result' = try_from(builder, overflow_checks)
    /\ last' = [last EXCEPT !.op = "try_from"]
    /\ UNCHANGED <<board, history, builder, query, overflow_checks, magic_moves, hash, iter>>

NextBuilder ==
    \/ Place
    \/ WithCastleRights
    \/ WithEnPassant
    \/ WithoutEnPassant
    \/ WithHalfMoveClock
    \/ WithTurnCount
    \/ WithCurrentPlayer
    \/ Convert

SpecBuilder == InitBuilder /\ [][NextBuilder]_vars

\* (turn - 1) * 2 + (1 if side is Black else 0) over the integers
PliesOf(bld) ==
    WAdd(WDouble(WAdd(bld.turn_count, -1)), IF bld.side = "Black" THEN 1 ELSE 0)

\* C10: converting any builder, whatever its 32-bit turn counter, never aborts,
\* and when it yields a position that position passes validate and has
\* total_plies = (turn - 1) * 2 + (1 if side is Black else 0), unwrapped.
C10_ConversionTotal ==
    last.op = "try_from" =>
        /\ ~result.aborted
        /\ result.outcome = "Ok" =>
            /\ is_valid(result.board)
            /\ result.board.total_plies = PliesOf(builder)

\* C10: a builder whose turn counter is 0 has been converted.
C10_Witness ==
    /\ last.op = "try_from"
    /\ builder.turn_count = W(0)
    /\ \/ result.aborted
       \/ result.outcome = "Ok"

(***************************************************************************)
(* 64-bit words for the magic arithmetic.  A word is the sequence of its   *)
(* eight bytes, least significant first: byte f + 1 holds the bits         *)
(* 8f .. 8f + 7, the squares of file f.                                    *)
(***************************************************************************)
Byte == 2 ^ 8
ZeroWord == <<0, 0, 0, 0, 0, 0, 0, 0>>
\* Bitboard.0: the sum of 2^s over the squares s of the board
RECURSIVE ToWord(_)
ToWord(b) ==
    IF b = EMPTY THEN ZeroWord
    ELSE LET s == CHOOSE x \in b : TRUE
         IN  [ToWord(b \ {s}) EXCEPT ![(s \div 8) + 1] = @ + 2 ^ (s % 8)]
TestBit(w, s) == (w[(s \div 8) + 1] \div (2 ^ (s % 8))) % 2 = 1
\* Bitboard(w)
FromWord(w) == {s \in Squares : TestBit(w, s)}

RECURSIVE BitAnd(_, _)
BitAnd(x, y) ==
    IF x = 0 \/ y = 0 THEN 0
    ELSE (x % 2) * (y % 2) + 2 * BitAnd(x \div 2, y \div 2)
WordAnd(x, y) == [i \in 1 .. 8 |-> BitAnd(x[i], y[i])]

\* u64::wrapping_sub: bytes from the least significant up, each difference
\* taking the borrow of the byte below.
wrapping_sub(x, y) ==
    LET d1 == x[1] - y[1]
        d2 == x[2] - y[2] + (d1 \div Byte)
        d3 == x[3] - y[3] + (d2 \div Byte)
        d4 == x[4] - y[4] + (d3 \div Byte)
        d5 == x[5] - y[5] + (d4 \div Byte)
        d6 == x[6] - y[6] + (d5 \div Byte)
        d7 == x[7] - y[7] + (d6 \div Byte)
        d8 == x[8] - y[8] + (d7 \div Byte)
    IN  <<d1 % Byte, d2 % Byte, d3 % Byte, d4 % Byte,
          d5 % Byte, d6 % Byte, d7 % Byte, d8 % Byte>>

\* u64::wrapping_mul: the columns of the schoolbook product from the least
\* significant up, each taking the carry of the column below.
wrapping_mul(x, y) ==
    LET c1 == x[1] * y[1]
        c2 == x[1] * y[2] + x[2] * y[1] + (c1 \div Byte)
        c3 == x[1] * y[3] + x[2] * y[2] + x[3] * y[1] + (c2 \div Byte)
        c4 == x[1] * y[4] + x[2] * y[3] + x[3] * y[2] + x[4] * y[1] + (c3 \div Byte)
        c5 == x[1] * y[5] + x[2] * y[4] + x[3] * y[3] + x[4] * y[2] + x[5] * y[1]
                + (c4 \div Byte)
        c6 == x[1] * y[6] + x[2] * y[5] + x[3] * y[4] + x[4] * y[3] + x[5] * y[2]
                + x[6] * y[1] + (c5 \div Byte)
        c7 == x[1] * y[7] + x[2] * y[6] + x[3] * y[5] + x[4] * y[4] + x[5] * y[3]
                + x[6] * y[2] + x[7] * y[1] + (c6 \div Byte)
        c8 == x[1] * y[8] + x[2] * y[7] + x[3] * y[6] + x[4] * y[5] + x[5] * y[4]
                + x[6] * y[3] + x[7] * y[2] + x[8] * y[1] + (c7 \div Byte)
    IN  <<c1 % Byte, c2 % Byte, c3 % Byte, c4 % Byte,
          c5 % Byte, c6 % Byte, c7 % Byte, c8 % Byte>>

\* (w >> shift) as usize, for a shift of 48 to 63 (a mask of 1 to 16 squares)
ShrToUsize(w, shift) == (w[7] + Byte * w[8]) \div (2 ^ (shift - 48))

(***************************************************************************)
(* BitboardPowerSetIterator                                                *)
(***************************************************************************)
PowerSetNew(b) == [board |-> b, subset |-> EMPTY, done |-> FALSE]

\* A faulty next(): the difference is not cut down to the mask.
PowerSetNextUnmasked(it) ==
    IF it.done THEN [item |-> None, iter |-> it]
    ELSE LET w == wrapping_sub(ToWord(it.subset), ToWord(it.board))
             sub == FromWord(w)
         IN  [item |-> Some(it.subset),
              iter |-> [board |-> it.board, subset |-> sub, done |-> sub = EMPTY]]

\* next(): the item returned and the iterator afterwards.
PowerSetNext(it) ==
    IF it.done THEN [item |-> None, iter |-> it]
    ELSE LET w == wrapping_sub(ToWord(it.subset), ToWord(it.board))
             sub == {s \in it.board : TestBit(w, s)}
         IN  [item |-> Some(it.subset),
              iter |-> [board |-> it.board, subset |-> sub, done |-> sub = EMPTY]]

\* Up to n calls of next(): the items returned, in order, and the iterator afterwards.
RECURSIVE PowerSetTake(_, _)
PowerSetTake(it, n) ==
    IF n = 1
    THEN LET r == PowerSetNext(it)
         IN  [items |-> IF IsSome(r.item) THEN <<Unwrap(r.item)>> ELSE <<>>, iter |-> r.iter]
    ELSE LET a == PowerSetTake(it, n \div 2)
             b == PowerSetTake(a.iter, n - (n \div 2))
         IN  IF a.iter.done THEN a ELSE [items |-> a.items \o b.items, iter |-> b.iter]

\* collect(): the items in the order next() yields them, until it yields None.
RECURSIVE PowerSetCollect(_, _)
PowerSetCollect(it, acc) ==
    IF it.done THEN acc
    ELSE LET t == PowerSetTake(it, Len(acc) + 1)
         IN  PowerSetCollect(t.iter, acc \o t.items)
iter_power_set(b) == PowerSetCollect(PowerSetNew(b), <<>>)

(***************************************************************************)
(* Magic bitboards: Magic, MagicMoves and their generation                 *)
(***************************************************************************)
Kinds == {"Bishop", "Rook"}
mask_fn(kind, sq) ==
    IF kind = "Bishop" THEN generate_bishop_mask(sq) ELSE generate_rook_mask(sq)
moves_fn(kind, sq, blockers) ==
    IF kind = "Bishop" THEN naive_bishop_moves(sq, blockers)
    ELSE naive_rook_moves(sq, blockers)

\* get_index with the blockers left unmasked.
get_index_unmasked(magic, blockers) ==
    ShrToUsize(wrapping_mul(ToWord(blockers), magic.magic), magic.shift) + magic.offset

\* A faulty index: the offset of the square is added twice.
get_index_offset_twice(magic, blockers) ==
    LET relevant_occupancy == ToWord(blockers \cap magic.mask)
        base_index == ShrToUsize(wrapping_mul(relevant_occupancy, magic.magic), magic.shift)
    IN  base_index + magic.offset + magic.offset

\* Magic::get_index; magic.magic is a word, the index is 0-based.
get_index(magic, blockers) ==
    LET relevant_occupancy == ToWord(blockers \cap magic.mask)
        base_index == ShrToUsize(wrapping_mul(relevant_occupancy, magic.magic), magic.shift)
    IN  base_index + magic.offset

\* MagicMoves::query
query_moves(tables, square, blockers) ==
    tables.moves[get_index(tables.magics[square + 1], blockers) + 1]

\* PreRolledRng::gen: the number returned and the generator afterwards; a read
\* past the 64 numbers panics.
PreRolledRngNew(numbers) == [numbers |-> numbers, current_index |-> 0, panicked |-> FALSE]
gen(rng) ==
    IF rng.panicked \/ (rng.current_index \div 3) >= Len(rng.numbers)
    THEN [value |-> ZeroWord, rng |-> [rng EXCEPT !.panicked = TRUE]]
    ELSE [value |-> rng.numbers[(rng.current_index \div 3) + 1],
          rng |-> [rng EXCEPT !.current_index = @ + 1]]

magic_candidate(rng) ==
    LET g1 == gen(rng)
        g2 == gen(g1.rng)
        g3 == gen(g2.rng)
    IN  [value |-> WordAnd(WordAnd(g1.value, g2.value), g3.value), rng |-> g3.rng]

\* A faulty loop body: a slot already filled is overwritten, no collision is
\* ever met.
FillStepOverwriting(st, index, moves) ==
    [st EXCEPT !.moves[index] = moves]

\* One iteration of the loop over occupancy_to_moves, index being the 1-based
\* place of get_index(occupancy): st holds candidate_moves and whether a
\* non-constructive collision was met.
FillStep(st, index, moves) ==
    IF st.collision THEN st
    ELSE IF st.moves[index] /= EMPTY /\ st.moves[index] /= moves
    THEN [st EXCEPT !.collision = TRUE]
    ELSE [st EXCEPT !.moves[index] = moves]

\* The iterations lo..hi of that loop, in order.
RECURSIVE FillRange(_, _, _, _, _)
FillRange(st, indexes, o2m, lo, hi) ==
    IF lo > hi THEN st
    ELSE IF lo = hi THEN FillStep(st, indexes[lo], o2m[lo][2])
    ELSE Let(FillRange(st, indexes, o2m, lo, (lo + hi) \div 2), LAMBDA half :
            FillRange(half, indexes, o2m, ((lo + hi) \div 2) + 1, hi))

\* vec![value; len]
VecOf(value, len) == SubSeq([i \in 1 .. len |-> value], 1, len)
\* The function f of domain 1 .. len as a vector.
Collect(f, len) == SubSeq(f, 1, len)

\* The 'candidate_search loop for one square; the index of every occupancy
\* under a candidate is computed ahead of the loop that fills candidate_moves.
RECURSIVE candidate_search(_, _, _, _)
candidate_search(rng, mask, o2m, offset) ==
    LET drawn == magic_candidate(rng)
        candidate == [magic |-> drawn.value, offset |-> 0, mask |-> mask,
                      shift |-> 64 - count(mask)]
        indexes ==
            Collect([i \in 1 .. Len(o2m) |-> get_index(candidate, o2m[i][1]) + 1], Len(o2m))
        empty == [moves |-> VecOf(EMPTY, Len(o2m)), collision |-> FALSE]
    IN  IF drawn.rng.panicked
        THEN [panicked |-> TRUE, rng |-> drawn.rng]
        ELSE Let(FillRange(empty, indexes, o2m, 1, Len(o2m)), LAMBDA filled :
                IF filled.collision
                THEN candidate_search(drawn.rng, mask, o2m, offset)
                ELSE [panicked |-> FALSE, rng |-> drawn.rng,
                      magic |-> [candidate EXCEPT !.offset = offset],
                      moves |-> filled.moves])

\* generate_magics before its loop: nothing generated yet.
generate_magics_new(rng) ==
    [rng |-> rng, magics |-> <<>>, moves |-> <<>>, panicked |-> FALSE]

\* One iteration of the loop of generate_magics over the squares.
generate_magics_square(kind, g) ==
    LET square == Len(g.magics)
        mask == mask_fn(kind, square)
        occupancies == iter_power_set(mask)
        occupancy_to_moves ==
            Collect([i \in 1 .. Len(occupancies) |->
                        <<occupancies[i], moves_fn(kind, square, occupancies[i])>>],
                    Len(occupancies))
    IN  Let(candidate_search(g.rng, mask, occupancy_to_moves, Len(g.moves)), LAMBDA found :
            IF found.panicked
            THEN [g EXCEPT !.rng = found.rng, !.panicked = TRUE]
            ELSE [rng |-> found.rng,
                  magics |-> Append(g.magics, found.magic),
                  moves |-> g.moves \o found.moves,
                  panicked |-> FALSE])
\* BISHOP_SEED: each u64 as its eight bytes, least significant first.
BISHOP_SEED ==
    <<
      << 16,   0,   4,  12,   1,  20,  80,  64>>,  \* 4634226011293351952
      << 18,   0, 131,   4,  74,  16,   2,  96>>,  \* 6918109887683821586
      <<136,   0,   0,  67,   8,   1,  16,   1>>,  \* 76562328660738184
      << 32,  88,  16,   0,   2,   5, 132, 100>>,  \* 7242919606867744800
      <<129,   4,   1,   0,  16,   2, 130, 192>>,  \* 13871652069997347969
      <<  0, 208,   4,  72,  16, 144,  66,  16>>,  \* 1171657252671901696
      << 64,   8,  16,  16,  16,  65,  10,   2>>,  \* 147001475087730752
      << 64,  32,   1, 130,   0, 132,  80,  24>>,  \* 1752045392763101248
      <<128, 128, 128,   4,  32, 160,   0,   4>>,  \* 288406435526639744
      << 64,  65,   0,   2,   8, 224,   1,  64>>,  \* 4612213818402029888
      <<  8, 104,  32,   5,   8,   8,  32, 136>>,  \* 9808848818951710728
      <<  8,   4, 128,   1,  36,  20,   0, 128>>,  \* 9223394181731320840
      <<128,   0,   0,  32,  12,   4, 192,   0>>,  \* 54047645651435648
      <<  0,   1,   8,  16, 144,   0,   5, 128>>,  \* 9224780030482579712
      <<  0,   8,  32,  65,  18,  38,  32,   0>>,  \* 9049059098626048
      <<149,  32, 132,   0,  66,  48,   4,  20>>,  \* 1442330840700035221
      <<  4, 133,  68,  32,  32,   0,   4,   0>>,  \* 1126037887157508
      <<  1,   4,  68,   2,   8,   4,   2,  16>>,  \* 1153488887004529665
      <<136,  32, 132,   1, 176,   2,   8,   4>>,  \* 290485130928332936
      << 66,  16, 144,   4,   8,   0,  12, 128>>,  \* 9226749771011592258
      << 32,   2,  16,   2,   6,  16,  16,   2>>,  \* 148636405693678112
      <<  8,  32,   8,  65,   0,   8,   8,   0>>,  \* 2260596997758984
      << 16,  17,   3, 136,   3,   5,   5,   1>>,  \* 73470481646424336
      <<  0,   2,   2,   4,   5,  32, 128,  32>>,  \* 2341907012146823680
      << 17,   2,   8,   4,   0,  96,  32,  32>>,  \* 2314955761652335121
      <<128,   0,   4,  32, 128,  12,   8,   0>>,  \* 2265544246165632
      << 64,  32,   1,  40,   1,  80,  48,   0>>,  \* 13598764778463296
      <<  0, 130,   0,   2,  32,   0,   2,   0>>,  \* 563087425962496
      << 64, 128,   0,   2,  32,   0,   2,   0>>,  \* 563087425962048
      <<  0,   8,  16,  33,  32,  11,   8,  30>>,  \* 2163991853573081088
      << 68,  33,   1,  66,   1,   4,   2,   0>>,  \* 567353402270020
      <<  0,  36,  68,  18, 162,   1,  13,  90>>,  \* 6488844433713538048
      <<  2,  32,  12,   0,  16,  16,   2,   4>>,  \* 288810987011448834
      << 64,   1,   4, 128,  32,   8,  42,   0>>,  \* 11830884701569344
      <<  0,   1,  80, 128,  32,  66,  33,  38>>,  \* 2747549955031826688
      <<  0,   2,   8,  32, 128,  32,   0,   0>>,  \* 35734665298432
      << 32,   0,  34,  32, 128,  10,  64,   0>>,  \* 18025943920672800
      << 20,   1,  18,   0, 149, 144,  16,   4>>,  \* 292892945404789012
      <<  0,   6,  68,   0, 194,  32,   2,  16>>,  \* 1153520472160470528
      <<  4, 134,   0,  64,  82,   8,   8,   0>>,  \* 2260949167801860
      <<  1, 144,   0,  96,   2,  66,  40,   2>>,  \* 155446765112299521
      << 64,  16,  64,  18,  16, 130,  66,   5>>,  \* 379008324189818944
      <<  8,  16,  18,   2,  68,   8,  17,  64>>,  \* 4616480181217005576
      <<  0,   2,  64,  16,  64,   0,   0,   8>>,  \* 576461027453960704
      <<  0,  71,  20,  48,   4,  32,   2,  34>>,  \* 2450556349601564416
      <<128,   0,   0, 137,   1,  32,  27,  16>>,  \* 1160556519943569536
      << 64,   0,   8,  10,  42,  80,   4,  64>>,  \* 4612900059821375552
      << 33, 128,   0,   9,   3, 136,   2,  76>>,  \* 5477089643453251617
      <<  8,  65,  16,  16, 144, 145,   0, 128>>,  \* 9223532084785594632
      << 64,   4,  18,  16, 132, 132,   0,  39>>,  \* 2810391870219355200
      <<  1,  24,  16,  68,  64,   2, 130,   0>>,  \* 36594222015453185
      <<  0,   0,   9,   4,  17,  40,   1,  64>>,  \* 4612011546951352320
      <<  0,   0,  98, 160,  80, 128,   8,   0>>,  \* 2392883590201344
      <<  0,   4, 162,   1,   4,  32,   0,  16>>,  \* 1152956706186200064
      <<  0, 132,   6,   8,   4,   2,  32,   0>>,  \* 9009415592510464
      << 32,   0, 129, 195,   2,  12,  32,   1>>,  \* 81077999302148128
      <<128,   8, 136, 128,   0,   4,   1,   8>>,  \* 576746627483043968
      <<  0,  40,  14,  68,   0,  18,   1,   0>>,  \* 301267327789056
      <<  0,  16, 113,   0,   1,  36,   0,   0>>,  \* 39586720976896
      <<  0,   2,  66,   0,   0,  19,   1,  10>>,  \* 720878306081243648
      <<  1,   2, 130, 208,   0, 128,   0, 128>>,  \* 9223512777841312257
      <<129,   0,  48,   4,  32,   2,   0,  80>>,  \* 5764609859566698625
      << 80,   0,   2,  24,  32,  72,  64, 112>>,  \* 8088544233436348496
      << 64,   0,  68,   2,  88,  40,   4,  64>>   \* 4612856276794474560
    >>

\* ROOK_SEED: each u64 as its eight bytes, least significant first.
ROOK_SEED ==
    <<
      <<132,   0, 192,  16,  32,   0, 128,   2>>,  \* 180144122814791812
      << 20, 128,   1,   1,  64,  32,   0, 145>>,  \* 10448386594766422036
      <<136,   2, 224, 130,   0,  16, 128, 130>>,  \* 9403533616331358856
      <<  0,  16,  68, 128,   0,   8, 128,   1>>,  \* 108095189301858304
      <<  0,   8,   4,  17,   1,  17,   0,   1>>,  \* 72076290316044288
      <<  1,   0,   4, 128,   0,  34, 128,   0>>,  \* 36066182562054145
      <<  0,  17,   0,   2, 128,   2, 128,  64>>,  \* 4647717564258980096
      <<  4, 130,  64,  16,  33,   0,   0, 194>>,  \* 13979173385364603396
      <<128, 160,   0, 192,   8, 128,  32,  64>>,  \* 4620833992751489152
      <<128,  32,   0,   6,  65,   0,  34,   4>>,  \* 297800804633419904
      <<  0,  16, 129,   2,  32, 128,   5,   8>>,  \* 578009002156298240
      <<  2,   8, 129,   0,  16, 128,   0,  34>>,  \* 2450099003505838082
      <<  0,   1,  40,  20,  16,   0,  81,  16>>,  \* 1175721046778052864
      <<  0,   2, 128,   0,   4, 128,  72,   0>>,  \* 20406952999780864
      <<  0,   2, 128,   0,  17, 128,  81,  16>>,  \* 1175861788231598592
      <<128,  64,   8,   0,   1, 128, 128,   0>>,  \* 36169538802827392
      <<  0,  64,  32,   1, 128, 128,   0,   4>>,  \* 288371663414771712
      << 35,   0,   1,  64,   0, 129,   1,   0>>,  \* 423313050501155
      <<  2, 130,  67,  16,   0,  38,   2,   0>>,  \* 604731668136450
      <<  0,   8,   2,  16, 128, 128,  13,   8>>,  \* 580261214513399808
      <<  0,   8,   1,   4, 128, 129,  33,   4>>,  \* 297661437206136832
      <<128,   0,   4,   2, 128,   0,  74,  24>>,  \* 1750211954976489600
      <<  8,  16,   2,   1,   0,  12,  32,   0>>,  \* 9020393411186696
      << 33, 132,  64,   1,   0, 130, 128, 128>>,  \* 9259543770406356001
      <<  0,  64,   2, 128, 128,  40,   0,   0>>,  \* 44532368556032
      <<  8,  32,   2,  64,   1,  80,   0, 144>>,  \* 10376381507760693256
      <<128,   0,  32, 128,   0,  48,   0,   0>>,  \* 52778707714176
      <<  0,   8, 128, 128,   0,  16,   4,  64>>,  \* 4612829512676149248
      << 16,   0,   5,   0,   1,   8,  32,  26>>,  \* 1882513444629184528
      <<128,   0,   2, 128,   0,   4, 226,  32>>,  \* 2369460754144428160
      <<  5,   2, 144,   0,   4,   8,   0, 128>>,  \* 9223380850137104901
      <<100, 130,   0,   0,   2,   1,   1,  37>>,  \* 2666413562481640036
      << 32,   4, 128,  16,  64, 128,   0,   0>>,  \* 141012643087392
      <<  0,  66,   0,   6,  33, 128,  64, 232>>,  \* 16735517094631719424
      <<  7,  32, 128, 129,   0,  16,   0,   0>>,  \* 17594358702087
      <<  4,  40, 128,   0,  16, 128, 136,  32>>,  \* 2344264412262574084
      <<  0,   8, 128,   0, 140, 128,   1,   0>>,  \* 422813768878080
      <<  0,   2, 128,  68, 128,   0,   4,   0>>,  \* 1126450811896320
      <<  8, 186,   0,   4,  16, 129, 193,   0>>,  \* 54466576291772936
      << 20,   1,   0, 194, 130,   0, 152,   0>>,  \* 42784758060548372
      << 16, 128,   0,  64,  32, 128,  16,   4>>,  \* 292874851780165648
      << 65,   0, 133,   0, 225,   0,  64,   0>>,  \* 18015364885839937
      << 64,   0,   1,  96,  16,   1,   1,   0>>,  \* 282644818493504
      << 16,   0,   9,   0, 161,   0, 112,  16>>,  \* 1184447393488764944
      << 64,  64,   0,   2,   4,   0, 136,  64>>,  \* 4649966632473477184
      <<  6, 128,   0,  12, 128,   0,   2,   0>>,  \* 563499910594566
      << 22,   0,  12,  72,   9,  16,   0,   0>>,  \* 17632049496086
      <<  1,   0, 162,   0, 212,  16,   0,   0>>,  \* 18502729728001
      <<  0, 193,  32,  20,   1, 128,   0,   0>>,  \* 140742121013504
      <<128,   0,  64,   0,  32, 128,  34,   0>>,  \* 9711024139665536
      <<  0, 193,   2, 155,   0, 224,   0,   0>>,  \* 246293205270784
      <<  0,  33,   0,   1,  16,   8,   9,   4>>,  \* 290772515771392256
      <<128,   0,   8, 128,   0,   4,  24, 128>>,  \* 9230131836490350720
      <<128,   0,   4, 128,   0, 130,   4,   1>>,  \* 73326432604127360
      <<  0,  26,   3, 132,  40,   0,  74,   6>>,  \* 453174886517643776
      <<  0,  66,  34, 131,   0,  68,  65,  33>>,  \* 2396271245728563712
      <<  5, 137,  32,  64,  16,   0, 128,   4>>,  \* 324259242966026501
      <<  3,  64,   8, 129,  32, 146,   2,   4>>,  \* 288953994406543363
      << 34,   0, 130,  16,   9,  66,   2,  16>>,  \* 1153557061259362338
      <<177,  96,  20,   8,   0,   1, 144,   0>>,  \* 40533496293515441
      << 19,  16,   0,   8,   4,   0,   5,   0>>,  \* 1407392197644307
      << 66,  20,   8,  16,   1,   0,   2,  24>>,  \* 1729945211427624002
      <<  4,   8,  19,   2, 144,  80,  40,   8>>,  \* 587808330812164100
      <<130,   0,  33,  64,   0,   4,   0, 132>>   \* 9511606812128903298
    >>

(***************************************************************************)
(* The magic tables at work: the statics of bishop_moves and rook_moves    *)
(* are generated square by square, then queried.                           *)
(***************************************************************************)

\* The blockers bishop_moves, rook_moves and queen_moves are asked about.
QueryBlockers ==
    {EMPTY, ALL, ChessBoardDefault.combined_occupancy,
     RANKS[RankFourth] \cup FILES[FileD] \cup {B6, F3, H8}}
\* The squares they are asked about.
QuerySquares == {A1, A4, D5, E4, G1, H8}

InitMagic ==
    /\ magic_moves =
        [Bishop |-> generate_magics_new(PreRolledRngNew(BISHOP_SEED)),
         Rook |-> generate_magics_new(PreRolledRngNew(ROOK_SEED))]
    /\ last = [op |-> "new"]
    /\ query = NoQuery
    /\ result = NoResult
    /\ board = ChessBoardDefault
    /\ history = <<>>
    /\ builder = NoBuilder
    /\ overflow_checks = TRUE
    /\ hash = NoHash
    /\ iter = NoIter

\* get_or_init has stored the MagicMoves of the kind
Initialised(kind) == Len(magic_moves[kind].magics) = Cardinality(Squares)
Untouched(kind) == Len(magic_moves[kind].magics) = 0

\* One iteration of the loop of generate_magics, run by get_or_init on the
\* first call of bishop_moves (rook_moves); the initialisation of one static
\* is not interleaved with that of the other.
Generate(kind) ==
    /\ last.op \in {"new", "generate"}
    /\ ~Initialised(kind)
    /\ ~magic_moves[kind].panicked
    /\ \A other \in Kinds \ {kind} : Untouched(other) \/ Initialised(other)
    /\ magic_moves' = [magic_moves EXCEPT ![kind] = generate_magics_square(kind, @)]
    /\ last' = [op |-> "generate", kind |-> kind, square |-> Len(magic_moves[kind].magics)]
    /\ UNCHANGED <<board, history, builder, query, result, overflow_checks, hash, iter>>

GenerateBishop == Generate("Bishop")
GenerateRook == Generate("Rook")

\* A call answered from the statics, no initialisation being under way.
Asked(op) ==
    /\ last.op \in {"new", "generate"}
    /\ \A kind \in Kinds : Untouched(kind) \/ Initialised(kind)
    /\ last' = [op |-> op]
    /\ UNCHANGED <<board, history, builder, overflow_checks, magic_moves, hash, iter>>

\* bishop_moves(square, blockers), the static initialised
BishopMoves ==
    /\ Initialised("Bishop")
    /\ \E square \in QuerySquares, blockers \in QueryBlockers :
        /\ query' = [square |-> square, blockers |-> blockers]
        /\ result' = query_moves(magic_moves.Bishop, square, blockers)
    /\ Asked("bishop_moves")

\* rook_moves(square, blockers), the static initialised
RookMoves ==
    /\ Initialised("Rook")
    /\ \E square \in QuerySquares, blockers \in QueryBlockers :
        /\ query' = [square |-> square, blockers |-> blockers]
        /\ result' = query_moves(magic_moves.Rook, square, blockers)
    /\ Asked("rook_moves")

\* queen_moves(square, blockers), both statics initialised
QueenMoves ==
    /\ Initialised("Bishop")
    /\ Initialised("Rook")
    /\ \E square \in QuerySquares, blockers \in QueryBlockers :
        /\ query' = [square |-> square, blockers |-> blockers]
        /\ result' = query_moves(magic_moves.Bishop, square, blockers)
                        \cup query_moves(magic_moves.Rook, square, blockers)
    /\ Asked("queen_moves")

NextMagic == GenerateBishop \/ GenerateRook \/ BishopMoves \/ RookMoves \/ QueenMoves

SpecMagic == InitMagic /\ [][NextMagic]_vars

\* C5: bishop_moves and rook_moves answered from the magic tables equal the
\* naive union-of-rays sets, and queen_moves the union of the two.  When the
\* table of a square has just been generated, the lookup for that square is
\* compared with the naive set for every subset of the square's mask, alone
\* and together with every square off the mask; when a call has been
\* answered, its result is compared with the naive set for its arguments and
\* with the oracle the position code is modelled with.
C5_MagicEqualsNaive ==
    /\ (last.op = "generate" /\ ~magic_moves[last.kind].panicked) =>
        \A mask \in {mask_fn(last.kind, last.square)} :
            \A blockers \in SUBSET mask :
                /\ query_moves(magic_moves[last.kind], last.square, blockers)
                    = moves_fn(last.kind, last.square, blockers)
                /\ query_moves(magic_moves[last.kind], last.square, blockers \cup (ALL \ mask))
                    = moves_fn(last.kind, last.square, blockers \cup (ALL \ mask))
    /\ last.op = "bishop_moves" =>
        /\ result = naive_bishop_moves(query.square, query.blockers)
        /\ result = bishop_moves(query.square, query.blockers)
    /\ last.op = "rook_moves" =>
        /\ result = naive_rook_moves(query.square, query.blockers)
        /\ result = rook_moves(query.square, query.blockers)
    /\ last.op = "queen_moves" =>
        /\ result = naive_bishop_moves(query.square, query.blockers)
                        \cup naive_rook_moves(query.square, query.blockers)
        /\ result = queen_moves(query.square, query.blockers)

\* C5: both tables were generated, every square taking the first candidate
\* drawn from its seed, and queen_moves was asked about E4 on the starting
\* position, where the queen reaches E2 but not E1.
C5_Witness ==
    /\ last.op = "queen_moves"
    /\ \A kind \in Kinds :
        /\ Initialised(kind)
        /\ magic_moves[kind].rng.current_index = 3 * Cardinality(Squares)
    /\ query = [square |-> E4, blockers |-> ChessBoardDefault.combined_occupancy]
    /\ E2 \in result
    /\ E1 \notin result

(***************************************************************************)
(* Zobrist keys (board/zobrist.rs): 64-bit words, as sequences of eight    *)
(* bytes, least significant first.                                         *)
(***************************************************************************)
BLACK_TO_MOVE == << 71,  28, 235, 184,   9, 178, 230,   0>>  \* 64934999470316615

EN_PASSANT_HASHES ==
    <<
      <<210, 128,  78, 212,   8,   6, 139, 214>>,  \* 15459456780870779090
      <<163, 161, 123, 171, 106,  48,  87, 190>>,  \* 13715484424881807779
      <<205, 195, 228, 122,  53,   4, 229, 245>>,  \* 17718572936700675021
      <<237,  94, 101, 149,  91, 249, 114, 202>>,  \* 14587996314750246637
      <<210,  92, 193,  36, 165, 145, 169,  92>>,  \* 6677028061025754322
      << 17, 200,  14, 152, 112, 143, 102, 186>>,  \* 13431580652429297681
      <<180,  30,  23, 188, 114, 160, 158, 151>>,  \* 10925346160689749684
      << 48,  29, 217, 129,  99, 171, 130, 206>>   \* 14880644562654141744
    >>

CASTLING_HASHES ==
    <<
      <<
        << 66,  73, 180, 126,   9, 144, 129,  14>>,  \* 1045274958981515586
        <<242, 187, 145, 116, 241, 194, 212,  74>>,  \* 5392148996167941106
        <<122, 115, 166,  33, 140, 215, 185, 198>>,  \* 14319713487061152634
        <<202, 133, 242, 240,  69, 107, 201, 221>>   \* 15981422700840256970
      >>,
      <<
        <<141, 139,  94,  35,  66, 121, 189, 158>>,  \* 11438431953559128973
        <<198, 191,  14, 136, 253,  45, 119, 210>>,  \* 15165640837126078406
        <<180, 251, 173,  58, 174, 180,  94, 134>>,  \* 9682374909294934964
        << 34, 231, 181,  83, 131, 187, 254,  51>>   \* 3746638112738371362
      >>,
      <<
        << 60,  86, 200,  24, 184,  98, 105, 180>>,  \* 13000030342210934332
        << 90,  96, 232,  39,   4,  31, 206, 172>>,  \* 12451924122435870810
        << 51,   9,  69, 158, 101,  58,  60,  18>>,  \* 1313989399406774579
        <<192, 178, 242, 197,  95,  45, 245,  51>>   \* 3743948554594595520
      >>,
      <<
        <<179, 167, 126, 235, 190, 235, 244,  25>>,  \* 1870378950492858291
        << 39, 137, 196, 118,  42, 113, 106, 133>>,  \* 9613620781770901799
        <<166, 180, 227, 211,  21,  93, 157,  17>>,  \* 1269273018318959782
        <<163,  28, 179, 134, 132,  24,  49,   0>>   \* 13819231333457059
      >>
    >>

PIECE_HASHES ==
    <<
      <<
        <<
          <<181, 202, 252,  92,  25, 103, 233, 219>>,  \* 15846310122511714997
          <<241, 172, 169, 208, 169,  33,   3, 216>>,  \* 15565321750356536561
          << 71, 222,  16,  89, 145,  95, 227,  54>>,  \* 3955109975630601799
          <<232, 250, 197, 227, 241,   4, 239,  51>>,  \* 3742215252323203816
          <<169, 174,  24, 193,  23, 221,  65, 160>>,  \* 11547754013648268969
          << 48, 244,  65,  77, 139,   6, 101, 127>>,  \* 9179750610831012912
          << 44, 236, 192, 204,  55, 119,  30, 139>>,  \* 10024580902115404844
          << 21, 130, 149, 157, 131, 161, 207, 186>>,  \* 13461155397890310677
          <<101,  43,  67, 139, 127,  37,  57,  55>>,  \* 3979252975486053221
          <<151,  65, 254, 122,  83, 186,  60,  95>>,  \* 6862564799914328471
          << 41, 174, 176,  37,  83,  55,  88, 208>>,  \* 15012810188093697577
          <<218,  67,  77, 112, 120, 209, 188, 195>>,  \* 14104378448227943386
          <<246,  82, 168,  15, 152, 141,  61,  31>>,  \* 2251111072992350966
          << 87,  65,  40, 109, 126,  75, 255, 120>>,  \* 8718770409981886807
          <<154, 117, 252,  91,  38, 112, 219, 160>>,  \* 11590981376022443418
          <<151,  51, 116,   4, 242,   9, 100, 127>>,  \* 9179472875549373335
          << 75, 244, 237, 182, 123, 206, 183, 204>>,  \* 14751486135220696139
          <<  0, 228, 185, 132, 182, 210, 250, 204>>,  \* 14770349609267618816
          << 94,  78, 230,  22,   8,  79,  48, 219>>,  \* 15794210789350854238
          <<154,  59,  61, 220, 146, 138,  13, 112>>,  \* 8074262070310026138
          <<214,  61, 169, 134, 243,  72,  26, 136>>,  \* 9807231349326167510
          <<252, 209, 108,  94,  23, 160,  27, 248>>,  \* 17878059168006197756
          <<122, 110, 141, 126,  60, 245,  51, 236>>,  \* 17020217056933277306
          <<127, 220, 105, 226,  64,  80,  93, 113>>,  \* 8168773538726665343
          << 76, 239, 127, 135, 239, 232,  71, 146>>,  \* 10540649568352071500
          <<184,  10, 182,  92,  99, 209, 249, 227>>,  \* 16427391340497996472
          << 66, 156, 119, 245,  62, 191,  36, 178>>,  \* 12836595115039890498
          << 42,  29, 240,  80,  83,  73, 203, 181>>,  \* 13099644563326246186
          <<242,  18, 253,   4, 133, 139,   7, 217>>,  \* 15638621634497942258
          << 37,   6, 124, 255, 234, 106,  72,  34>>,  \* 2470341953153926693
          <<122, 110,  91, 148, 214,  52,  23, 239>>,  \* 17228296995745787514
          << 67, 133, 231,  37,   2,  32,  65, 167>>,  \* 12051949271418111299
          <<182, 227, 222,  49,  76,  15, 123,  93>>,  \* 6735994487591330742
          <<  3,  74, 184, 135,  25, 149,   5, 138>>,  \* 9945519289001331203
          << 19,   1, 183, 124,  71,  76, 150, 121>>,  \* 8761273995014635795
          <<114, 136,  66,   9, 175, 174, 189,  15>>,  \* 1134254747965098098
          <<  9,  48, 201, 155,  23, 149,  20,   2>>,  \* 149908616240508937
          << 28, 161,  11, 204, 133, 245,  39,  13>>,  \* 947996201587548444
          <<169, 235,   3,   7, 194, 150, 123, 139>>,  \* 10050792753492913065
          << 28, 143, 106,  31, 227, 219, 172,  88>>,  \* 6389723739863027484
          <<142, 146,  49, 248,  10,  28,  67,  56>>,  \* 4054114923002827406
          <<129,   1, 206, 113,  26,  40,  74, 171>>,  \* 12342721822805852545
          << 17,  94, 167,   7,  75,  14, 196,  77>>,  \* 5603619551769484817
          <<196, 207, 191, 200, 144,   5, 218,  20>>,  \* 1502519545082924996
          << 52,  18, 243,  14, 139, 135,   1,  92>>,  \* 6629729157787095604
          <<154,  26,  26,  45,  92,  66,  73,  90>>,  \* 6505804100374502042
          << 80, 169, 110, 169, 163, 252, 233,  90>>,  \* 6551044912839567696
          <<132, 155, 148, 193, 104,  63,  33, 243>>,  \* 17519353744604830596
          << 77, 229, 102, 152, 152, 210, 111, 253>>,  \* 18262046566844392781
          << 59,  86,  58,   7, 221, 246,  49, 117>>,  \* 8444802205465859643
          << 96,  72,  70, 220,  83, 166, 243, 170>>,  \* 12318372284896528480
          <<204, 206, 220, 232, 141, 123,  97, 227>>,  \* 16384512768777965260
          <<128, 246, 220, 112, 194, 170, 131, 192>>,  \* 13872119029325166208
          <<190,  91, 157,  91, 194, 130, 167,   7>>,  \* 551553250648480702
          << 43,  40,   9, 115,   4, 140,  59, 169>>,  \* 12194494366773487659
          << 29,  43,  92, 207, 172, 182, 144, 123>>,  \* 8903817316641024797
          << 24,  79,  52, 173,  67, 181, 162,  39>>,  \* 2856044415979638552
          <<196, 114,  98, 100, 107,  88, 156, 244>>,  \* 17626060259890197188
          << 80, 180,  47, 168, 242, 113,  28,  86>>,  \* 6204959673627423824
          <<161, 155,  99, 143,  13, 148, 155,  16>>,  \* 1196712911958154145
          << 48,  45,  96,  32, 176, 100, 234,  31>>,  \* 2299761267346255152
          <<217,  12,  78, 148,  20, 186, 197, 192>>,  \* 13890713223244418265
          << 51,  31,  42, 253, 149, 138, 249, 187>>,  \* 13545009731095633715
          <<136, 144,  33,   5, 205, 168, 142,  77>>   \* 5588589786121212040
        >>,
        <<
          << 55,  85,  97,  85,  17, 132, 228, 185>>,  \* 13394976401688450359
          << 54, 153, 244, 145,  17,  90, 197, 186>>,  \* 13458262092976265526
          <<182, 118, 181, 102, 159, 239, 160,  89>>,  \* 6458425333551298230
          <<253, 111,  92, 109, 245, 157, 254, 222>>,  \* 16068454197931831293
          << 36,  40, 224, 143, 171,  27, 102, 251>>,  \* 18115196974811588644
          <<153,  68, 206,  69,  77, 243,   0,  27>>,  \* 1945822552233231513
          <<  4, 187, 171, 255, 244,  28,  44, 253>>,  \* 18242988029158079236
          <<213, 208, 242,  21, 151, 103, 175,  48>>,  \* 3508136533350863061
          <<102,  73, 116,  84, 188, 156, 250, 127>>,  \* 9221855519679203686
          << 69,  45, 157, 182, 237, 184, 107,  47>>,  \* 3417028073401167173
          <<251,  33, 153, 254, 206, 255, 205, 189>>,  \* 13676868907893858811
          <<200, 216,  80,  27,  37, 235, 130, 109>>,  \* 7891128041711130824
          << 85, 243, 187, 134, 226, 248, 150,  61>>,  \* 4438008134626964309
          << 63, 112, 139, 131,  49, 251, 126,  11>>,  \* 828375571561672767
          <<191,  62,  68,  72, 121,  14,  83,  72>>,  \* 5211525107864059583
          << 98, 146, 224,  46, 193,  75,  28, 138>>,  \* 9951912569669194338
          <<179, 154, 136, 214,  12,   2,  59, 219>>,  \* 15797222372094286515
          <<135, 158,  63, 213,  23,  40, 117, 111>>,  \* 8031369593312222855
          << 11,  42, 179, 224, 197,  31, 102, 117>>,  \* 8459483884800911883
          <<152,  69, 148,  92, 214, 110, 133, 225>>,  \* 16250516697391580568
          <<169, 106, 244,  35, 223, 236,  90, 126>>,  \* 9104850039807961769
          <<213, 163,  95, 221, 179, 175, 194, 133>>,  \* 9638459339574322133
          <<145,   1,  82, 135,  89, 222, 200, 102>>,  \* 7406414063314534801
          <<100,  23,  22, 230, 102,   5,  49, 230>>,  \* 16587044842087257956
          << 77,  63,  89, 241, 182, 244,   8,  60>>,  \* 4325976508659744589
          <<142, 199, 231, 163, 177, 222, 147,  46>>,  \* 3356271001861605262
          <<132,  23,  66,  21,  94, 166, 202, 165>>,  \* 11946543884567451524
          <<102,   4,   3, 222,  31, 164,   9,  39>>,  \* 2812959899045266534
          <<227, 128, 186,  87,  81, 113, 197, 129>>,  \* 9351004795482833123
          <<182,  19, 223, 114,  83, 155,  95, 178>>,  \* 12853162644250497974
          <<185, 144, 247,  59, 103,  97,  38, 214>>,  \* 15431128269247189177
          <<222,  40, 158, 114,  19, 241,  37,  83>>,  \* 5991459945115953374
          <<155,   9, 233, 254, 247, 213, 165, 143>>,  \* 10350914579691276699
          << 99, 197,  13, 194, 209, 139, 103,   4>>,  \* 317376031773017443
          << 52,  14, 165, 136,  10, 202,  56,  50>>,  \* 3618864447183195700
          <<142,  63,  40,  75, 136,  22, 197, 228>>,  \* 16484606785691860878
          << 70,  61, 156,  34, 202, 148, 129, 134>>,  \* 9692191468962987334
          << 90,  95,  81, 247, 146, 132, 134,   0>>,  \* 37863413628624730
          <<129, 134, 129,  46,  39, 167, 218, 234>>,  \* 16923022336523863681
          << 35, 247,  83,  13, 144, 213, 234,  73>>,  \* 5326304323994646307
          <<216,  75,  78, 112,  81, 146, 178,  33>>,  \* 2428164027580304344
          <<114, 132, 130, 223,   5, 225, 241, 150>>,  \* 10876721990417417330
          <<223,  59,  46, 189, 183, 100, 212,   5>>,  \* 420071405568015327
          <<124,  84,  58,  25, 178, 155, 154, 220>>,  \* 15896189023987324028
          << 25,  21,  62, 108,   5, 103,  26, 104>>,  \* 7501421402327487769
          <<226, 118,  64,  58, 253,  41, 111, 195>>,  \* 14082520727391598306
          <<179, 190, 190,  16,  14, 104,  47, 158>>,  \* 11398443591517781683
          <<197, 121, 100,  78, 104,  31, 106, 154>>,  \* 11126740362224499141
          <<152,   2,   4, 218, 145,  96, 173,  94>>,  \* 6822215190080389784
          <<131,  87, 179,   3,  83, 141, 188, 205>>,  \* 14824879461080717187
          <<177, 121, 102,  43, 161, 179,  86, 148>>,  \* 10688928270409693617
          << 11, 223, 201, 210, 127, 142, 235, 192>>,  \* 13901361354457603851
          << 87,  91,  33,  33, 143, 178, 123,   3>>,  \* 250990532055096151
          <<233, 130,   9, 246,  34, 196,   5,   3>>,  \* 217795811433087721
          <<114,  21, 177,  34, 106, 127, 140, 159>>,  \* 11496704042595325298
          <<135,   3, 182, 114, 148, 214,  48, 175>>,  \* 12623825688587535239
          <<224, 147,  43, 206, 132, 108, 123,  89>>,  \* 6447866609161442272
          << 86, 136, 159, 112, 152, 187,  63, 159>>,  \* 11475096638962239574
          <<217, 182,  29, 158, 217, 166, 193, 193>>,  \* 13961623773416109785
          <<170,  34, 242, 229,  30, 251, 248,  56>>,  \* 4105307170473648810
          << 93,  37, 229, 165,  20, 204,  35,  55>>,  \* 3973243685325579613
          << 91, 180, 230,  61, 108, 227, 194, 131>>,  \* 9494401018484929627
          << 15,   1, 240, 162,  53,  20,  71,   0>>,  \* 20006943945916687
          <<136, 145, 252,  90, 233, 109,  50, 165>>   \* 11903697614114951560
        >>,
        <<
          <<147,  48,  65, 123, 206, 153,  55,  51>>,  \* 3690587531763593363
          <<162, 209, 168,  48,  50, 166, 179, 192>>,  \* 13885624810608316834
          <<141, 168, 243, 150, 207,  72, 210,  77>>,  \* 5607624542457669773
          <<228, 147,  70, 195, 124,  47, 106, 168>>,  \* 12135564358801855460
          <<131,  91, 227, 147, 165,  86, 182,  61>>,  \* 4446836951225686915
          <<209, 140, 237,  51,  60,  41,  23, 173>>,  \* 12472483031571860689
          << 47,  41, 232,  73,  16, 197, 251,  37>>,  \* 2736997872307808559
          << 92, 143, 230, 188,  35, 158, 165,   1>>,  \* 118674841525456732
          <<145, 126, 240,  53,  42,  83, 154, 238>>,  \* 17193145968198975121
          << 66, 232,  77, 197,  17, 178, 151, 110>>,  \* 7969033855049787458
          <<  9, 179, 239,  90, 193, 173, 159,  79>>,  \* 5737495496259253001
          <<158,  56,  58,  33, 104, 234,  84,  26>>,  \* 1897399075984783518
          <<189, 236, 128, 238, 214,   2, 125, 177>>,  \* 12789381638949760189
          << 67,  98, 150, 118,  16, 245, 152, 112>>,  \* 8113504179765797443
          <<166, 141, 227, 121,  10, 103,  67,   8>>,  \* 595432870435327398
          <<192, 134,  41, 205, 203,  66,  64,  48>>,  \* 3476852355417867968
          << 83, 241,  95, 212,  91, 150, 234, 114>>,  \* 8280596186023326035
          <<138, 112, 151, 154, 206,  63, 148,  97>>,  \* 7031315074821615754
          <<134, 100,  95, 130, 245,  23, 251, 209>>,  \* 15130713716303029382
          <<217, 255, 214,  30,  37, 186, 137, 204>>,  \* 14738515924140621785
          <<201, 222, 231,  76, 194, 162, 121, 233>>,  \* 16823656838416817865
          <<151, 128, 145, 113, 242, 124, 197, 159>>,  \* 11512745403171831959
          <<255,  29, 120,  44,  17, 164, 205, 134>>,  \* 9713600364975496703
          <<  7, 137, 191, 242,  60, 163,  20, 112>>,  \* 8076259513948145927
          <<241,  51, 252,   2, 222, 124, 199, 200>>,  \* 14467669620925674481
          <<119,  38, 164, 125, 219, 236,  51,   2>>,  \* 158730839338002039
          << 95,  58,  16, 183,  69,  24,   4,  25>>,  \* 1802592438558145119
          <<163, 150, 241,  27, 253, 123, 240, 129>>,  \* 9363119952329021091
          <<150, 142, 242, 211,  78, 121, 120,   1>>,  \* 105967970713505430
          <<140, 230, 224,  68,  56, 116, 252, 221>>,  \* 15995787761535739532
          << 98,  71, 209,  94, 202,  84, 126,  26>>,  \* 1909056520202569570
          <<207, 189, 163, 168,  92, 187, 108,  53>>,  \* 3849657788135620047
          <<178, 110,  59,  83,  59, 140, 229,  19>>,  \* 1433706242814734002
          <<144, 149, 192,  56, 130, 202, 220,  34>>,  \* 2512105352812598672
          <<194, 118,  57, 161,  94, 119,  18,  40>>,  \* 2887501559413438146
          << 33, 100,  90, 132,  69, 203,  20, 211>>,  \* 15210005340970705953
          <<196, 136, 139,  14,  93,  56,   1, 151>>,  \* 10881040147030968516
          << 31, 195,  68,  57, 213, 147,  45, 105>>,  \* 7578876291932537631
          <<249, 197, 148, 234,   0,  37, 175, 169>>,  \* 12227032199200032249
          <<220, 241, 225,   6,   9, 175,  97,  79>>,  \* 5720045455042277852
          <<172,  19,  79,  92,  32, 158, 122, 241>>,  \* 17400393972124160940
          <<164,  13, 250,  25,  64, 139, 217, 193>>,  \* 13968348826696289700
          << 65, 153, 137, 254,  21,  37,  29,  65>>,  \* 4691947163184896321
          <<158, 117,  57,  35, 145,  49, 154, 199>>,  \* 14382862859392087454
          << 70, 103,   3, 125, 230, 235, 171,  17>>,  \* 1273370694834677574
          <<241,  76,  53, 197,  61,  60,  29,  29>>,  \* 2097899237423795441
          << 78, 178, 187,   7,  85,  36, 226, 208>>,  \* 15051632852246180430
          <<  2, 141,  88,  92, 239,   5,  88, 224>>,  \* 16165677388051025154
          << 98,  66,  17, 137, 136,  58,  46,  35>>,  \* 2535027998345740898
          <<146,  74, 168,  11, 146, 158, 194,  91>>,  \* 6612021553031301778
          << 58,  90,  63,  27, 191, 153, 158,  67>>,  \* 4872500892936395322
          <<191, 223, 195,  37,  63, 154, 219, 127>>,  \* 9213127058723692479
          <<157,  64,  73, 140, 188, 154, 227, 230>>,  \* 16637311583034884253
          <<228, 164,  19,  62,  59, 212,  28, 238>>,  \* 17157822031284380900
          <<171,  56, 230,  62,  41,  32,   2,  23>>,  \* 1657922974346786987
          <<108,  31, 206, 177, 244, 243,  21, 155>>,  \* 11175106282670399340
          << 10, 255, 116, 182, 207,  99, 141, 220>>,  \* 15892468403830849290
          <<119, 147,  29, 112, 251, 149, 234,  56>>,  \* 4101255317824574327
          <<212,  99,  94, 153,  54,  83,  62, 201>>,  \* 14501119344146015188
          <<158,  75,  62,  13, 103,  49, 119,  47>>,  \* 3420256760684759966
          << 46,   3,  12,  27,  32,  88, 249,   5>>,  \* 430472134306562862
          <<250,  64,  95,   9,  75,  69, 112,  32>>,  \* 2337444395187388666
          <<166,  12,  32, 172, 204, 133, 186, 188>>,  \* 13599329138906238118
          << 93,  43, 139,  43,  53,  18,  50, 245>>   \* 17668204307700984669
        >>,
        <<
          << 49, 212,  54, 195,  65,  83, 135,  24>>,  \* 1767472920679339057
          <<247,  34, 127, 173,  47, 164, 112, 195>>,  \* 14082936559468749559
          << 20, 177,  92, 228, 248,  28, 159,  19>>,  \* 1413880663326372116
          <<209,  95,  27,  18,  85,  27, 145, 148>>,  \* 10705367841426333649
          << 59, 201, 170,   3, 239,  11, 217,  76>>,  \* 5537470338015349051
          <<107,  69,  63,  63, 120, 127, 144, 178>>,  \* 12866924289831421291
          <<186, 138,  34, 158, 169,  21, 118,  61>>,  \* 4428751101812181690
          << 78, 114, 148, 215,  31,  46, 120,  37>>,  \* 2699958690904306254
          << 64, 247, 132, 208,   4, 173, 195, 252>>,  \* 18213591554206267200
          <<195, 136,  81,  23,  49,  42,  89, 118>>,  \* 8527893759735728323
          << 44, 111,  93, 175,  93,  48, 139,  99>>,  \* 7172880010449874732
          << 70, 205,   2, 200,  62,  31, 222, 175>>,  \* 12672600755971214662
          <<151, 140, 129,  86,  45, 165, 114, 169>>,  \* 12210003153898278039
          <<174,  53, 160,  70, 236, 159, 187, 118>>,  \* 8555607754266391982
          <<217,   0,  51, 141, 135, 132, 211, 199>>,  \* 14398998151357989081
          <<166, 131, 167,  93, 183, 131, 232,  11>>,  \* 858080552587592614
          <<184, 153,  11,  12,  48,  78,  44, 215>>,  \* 15504853585397258680
          <<107,  91, 181,  42, 242, 217,  83,  86>>,  \* 6220555144450628459
          <<206, 100, 122,  35,  76, 139,   4, 143>>,  \* 10305515006459536590
          <<227, 176, 115,  67, 182,  16, 169, 206>>,  \* 14891452017879003363
          <<125,  80, 212,  26, 156, 174, 128, 250>>,  \* 18050619291989201021
          << 95,  35, 103,  48, 207, 209, 215, 157>>,  \* 11373790071747978079
          <<106, 107, 200, 119, 220, 176, 153, 252>>,  \* 18201773829943487338
          <<189, 114,  83, 127,  70,  38, 219, 144>>,  \* 10437978645586997949
          <<181,   0, 210, 203,  34, 187,  83, 178>>,  \* 12849819919940976821
          <<175, 206, 134, 245,  26, 177,  55,  62>>,  \* 4483246683417136815
          << 88, 132, 174,  54, 235, 130, 235, 219>>,  \* 15846903660579554392
          <<156, 173, 134, 241, 197, 114,  35,  14>>,  \* 1018784135202123164
          <<195, 222,  95, 112,  60, 118, 233,  95>>,  \* 6911185105132183235
          << 23,  24,  24, 117, 184,   7,  63, 161>>,  \* 11619014052459059223
          <<129,  61, 193,  78,  61, 156,  97, 122>>,  \* 8818501332496366977
          <<145,  21,  73, 210,  56, 169, 193, 215>>,  \* 15546893450170930577
          <<  6,  33, 131,  23, 234,  61,  59, 235>>,  \* 16950209698165104902
          <<109,  35, 164, 114,  61, 106,  31,  57>>,  \* 4116125396588831597
          <<232, 204, 150, 218, 209, 151, 157,   2>>,  \* 188473686990703848
          <<160,   4,  64,  90, 164, 240, 101, 252>>,  \* 18187207258885063840
          <<137, 245, 253, 184, 141, 246,  23, 227>>,  \* 16363818859628459401
          <<113,  53,  67, 151, 195, 228,  88, 121>>,  \* 8743990205247337841
          <<205, 145,  20, 141, 197,  43, 141, 145>>,  \* 10488087234691240397
          <<226, 234,  76,  26, 120, 184, 111,  78>>,  \* 5651938883350096610
          <<193, 181, 210,  92, 114, 123, 253, 220>>,  \* 15924019588565743041
          << 83, 120, 226,  29,  35, 150, 139, 154>>,  \* 11136159581173086291
          <<189, 109, 104,  86, 187,  73, 229, 248>>,  \* 17934822160030264765
          << 33,   7,  13, 150, 158,  88,  61,  70>>,  \* 5061298994379818785
          <<226,  63, 213,  73, 233,  23, 182,   2>>,  \* 195369924570726370
          <<147, 194,  36, 145, 163, 185, 160, 236>>,  \* 17050832301390611091
          <<125,  40, 237,  39,  99, 188,  80,   0>>,  \* 22725132194490493
          <<187, 249, 235, 174, 152, 124, 227, 215>>,  \* 15556414533079398843
          <<202, 251,  47, 145, 193,  93,  97,  55>>,  \* 3990573830772882378
          << 85,  41,  55, 126, 152, 184, 161,  46>>,  \* 3360169762087184725
          <<182, 183, 106, 224,  48, 177, 144,   9>>,  \* 689245566469322678
          <<168,   8, 118, 141, 229, 133, 241, 123>>,  \* 8931066757019732136
          <<  2, 114, 211,  65,  42, 134,  32, 107>>,  \* 7719317277364154882
          <<186, 160, 157, 231, 124, 254,  35,   3>>,  \* 226304218713923770
          << 93, 114, 239, 121, 149, 100, 154,  68>>,  \* 4943374134151180893
          <<209,  53,  34,  16, 234,  96, 143, 190>>,  \* 13731300347285222865
          << 53,  34,  79, 225, 209,  32,  46,   4>>,  \* 301214310880715317
          <<181, 195,  98,  52, 215,  88, 103,   5>>,  \* 389377574110938037
          <<107,  81, 192,  95, 206, 206, 178, 196>>,  \* 14173618363053396331
          <<228, 238, 205,  51, 118,   1, 158,  47>>,  \* 3431181573289799396
          << 36,  84, 180,  35,  58,   3,  26, 191>>,  \* 13770322358880719908
          <<173, 199, 149,  76,  79, 103, 199, 204>>,  \* 14755876294387681197
          <<195, 245, 243, 237, 150,  26,  31,  25>>,  \* 1810194810765833667
          <<165, 219, 214,  54,   7, 122,  73, 140>>   \* 10108745010013199269
        >>,
        <<
          <<197, 164, 167,  71,   4, 126, 191, 107>>,  \* 7764062839457162437
          <<  9, 172, 229, 232,   8,  28, 243, 162>>,  \* 11741759478077697033
          << 30, 119,  94,  20, 217, 200,  15, 120>>,  \* 8651354243877205790
          << 46, 166,  79, 232, 150,  47,  32, 214>>,  \* 15429384648560453166
          <<192, 161, 247, 101,   8,   9, 111,  59>>,  \* 4282651702327747008
          <<255,  46, 189,  69,  20, 128,  34, 234>>,  \* 16871187978641026815
          <<141, 156, 120, 178,  94,  10, 169,  94>>,  \* 6820994512466779277
          <<230, 221, 213, 237,  48, 187, 254, 251>>,  \* 18158156566427459046
          << 18,   6, 174, 209, 200, 126, 145,  62>>,  \* 4508524102950979090
          <<233, 204,  16,  43,  81,  22, 139, 227>>,  \* 16396223406243106025
          <<230, 166, 182, 164, 176,  91, 254, 155>>,  \* 11240522534199142118
          <<223,  68,  47,  92, 233,  96,   0,  11>>,  \* 792740089807455455
          <<247, 107,  70, 178,  53, 246, 205, 215>>,  \* 15550355798864849911
          <<244, 160,  87,  31, 107,  64,  46, 162>>,  \* 11686348911904530676
          <<  4, 212,  65, 253, 238,  33, 213,  83>>,  \* 6040771785522271236
          <<173, 124,  99,  94, 139, 179,  49, 187>>,  \* 13488759770116750509
          <<  1, 224, 111, 127, 129,   0, 170,  65>>,  \* 4731594914694946817
          << 40, 110, 246, 217, 203, 164, 111,  14>>,  \* 1040231234387996200
          << 57,  58, 151, 186,  55, 189, 207, 122>>,  \* 8849499839857637945
          << 58, 107, 206,  29, 192, 228, 124,  33>>,  \* 2413055014148664122
          <<  0, 110, 223, 218,  38, 131, 114, 192>>,  \* 13867290405531250176
          << 99, 182,  32, 127, 152, 192,  80, 199>>,  \* 14362190972884924003
          << 43,  40, 138,  76,  72, 238,  39, 240>>,  \* 17305062087483598891
          << 18, 222, 167, 117, 193,  39,  69,  24>>,  \* 1748847742159412754
          <<210, 253, 146,  54,  50,  26, 225, 112>>,  \* 8133811204974116306
          << 20, 179,  61, 253,  82, 254, 177, 167>>,  \* 12083718907601203988
          <<124, 153, 170,  12, 208, 204,  86,  97>>,  \* 7014018663613897084
          << 40, 110, 250, 157, 153, 126, 243,  27>>,  \* 2014092656610274856
          <<151, 221, 195, 200,  35,  39,  18,  38>>,  \* 2743298157667671447
          << 83,  56,  71,  63, 165, 216, 150, 161>>,  \* 11643732090855831635
          <<183,  40, 167,  56, 218,  13,  35, 156>>,  \* 11250851525006141623
          <<205, 108, 136, 210, 106,  74, 192,  40>>,  \* 2936428779704708301
          <<151,  62, 124, 149, 153,  78,  28, 158>>,  \* 11393067578885422743
          <<170, 236, 205, 183, 135, 237,  17, 121>>,  \* 8724015120353455274
          <<230,  44, 136, 220,  57,  47,  50, 190>>,  \* 13705068541601393894
          << 59, 118, 106,   5, 215,  75, 121, 104>>,  \* 7528131639007409723
          <<182, 255,   2, 117, 120, 209,  33, 210>>,  \* 15141613737485729718
          << 43,  70,  74,  99, 176, 216, 251,  46>>,  \* 3385537796990715435
          <<  6,  85, 175, 116,   4, 251,  45,  91>>,  \* 6570183427959510278
          <<230,  10,  85, 109, 253, 212, 244, 176>>,  \* 12751050629918821094
          << 53,  89, 116, 178, 175,   6,  29, 106>>,  \* 7646275094027983157
          <<124,   6, 109, 116, 135, 212, 221, 114>>,  \* 8277005368415815292
          <<252, 111, 182, 180, 193,   9, 187, 104>>,  \* 7546636328154591228
          <<237, 156, 112, 237, 189, 154,  43, 217>>,  \* 15648771470751997165
          <<234,  42,  39, 155, 255, 128,  10, 194>>,  \* 13982129828433177322
          <<189, 160, 247, 214, 213,  44,  72, 141>>,  \* 10180436254617215165
          << 37,  73,  94,  30, 110,  52, 116,   5>>,  \* 392996715048618277
          << 97, 168,  69,  64,   6,  69, 164, 183>>,  \* 13232777498271787105
          << 98, 248, 174,  27, 176,  24, 235,  97>>,  \* 7055760385863776354
          <<241, 124, 135, 217, 163, 226, 240, 183>>,  \* 13254342896708451569
          << 58, 109, 154,  96, 129, 186, 203, 118>>,  \* 8560140581582040378
          << 54, 210, 201, 170,  56, 135, 124,   1>>,  \* 107109168603320886
          <<225, 192,  60,   1, 221,   4,   1, 253>>,  \* 18230858113827520737
          <<138, 248, 162, 237, 176, 231,  78,  73>>,  \* 5282414160039311498
          <<254, 233,  72, 139, 225, 164, 126, 104>>,  \* 7529636915621456382
          <<107, 224, 126, 136, 155, 105, 184, 216>>,  \* 15616347824638058603
          << 19, 114, 238,  85,  28,  39, 179, 154>>,  \* 11147296505326367251
          <<142, 115,  69,  41, 115, 246, 135,   7>>,  \* 542673254595523470
          << 60, 175, 138, 235,  72,  53,  74, 235>>,  \* 16954422334495305532
          <<236, 111,  55, 247, 239,  57, 181, 157>>,  \* 11364052937546887148
          <<178, 213,  31,  75,  88, 193,  23,  40>>,  \* 2888990270943122866
          << 82, 189, 136,  26,   0, 120,  19, 251>>,  \* 18091936069917916498
          <<205, 128,   9,  81,  10,   9,  43,  87>>,  \* 6281124045212188877
          <<251, 221,  37,  81, 151,  56,  66, 119>>   \* 8593493261528980987
        >>,
        <<
          <<169, 236, 120, 108, 184, 203, 125,  41>>,  \* 2989769720598162601
          << 33,  85, 239,  51, 192,  41,  97, 126>>,  \* 9106605827001636129
          << 33, 101,  40, 120,  39, 196, 208, 132>>,  \* 9570364881960985889
          << 16, 220, 133, 104, 172, 124,  14, 179>>,  \* 12902387062392871952
          <<177, 129, 111, 216, 196, 119, 150,  86>>,  \* 6239306021096882609
          << 25, 191,  91, 102, 212, 246, 176,   2>>,  \* 193926176087719705
          << 93, 208, 215,  32, 196,  58, 207,  83>>,  \* 6039110239366139997
          <<117,  13, 232, 213, 148,  70, 182, 221>>,  \* 15976034333201272181
          <<245,  10, 239, 183, 225,   4, 212,  17>>,  \* 1284657161207483125
          << 61, 133, 209, 200, 170,  22, 220,  62>>,  \* 4529520247997302077
          <<143, 166,  95, 107,  92, 239, 192, 178>>,  \* 12880558114497078927
          <<137, 240,  65, 119,   1, 225,  64,  89>>,  \* 6431387664297095305
          <<117, 255, 171, 130,  95,  49, 155, 218>>,  \* 15752238407942406005
          << 24,   3, 117,  15,  98, 243, 100, 109>>,  \* 7882692850296881944
          << 35,  99, 183, 222,  77,  56,  36, 121>>,  \* 8729163884851061539
          <<130, 182,  96, 105,  62, 176, 242, 194>>,  \* 14047483969824405122
          << 29, 226,  18,  82,  94,  22, 145, 242>>,  \* 17478776223161311773
          <<188, 167,  84,  67,  27, 130, 133, 233>>,  \* 16826998636345075644
          << 73,  14, 145,  95, 180,  26,  76,  81>>,  \* 5858086577301950025
          <<116, 132, 193,  75, 181, 127, 149,  36>>,  \* 2636153573532075124
          << 56, 139, 241, 137,  78,  41, 161, 245>>,  \* 17699473427841256248
          <<236, 235, 113,  36,  89, 226, 250,  24>>,  \* 1799999873579346924
          <<136, 197,  96, 254, 116, 119, 202, 243>>,  \* 17566984640879707528
          <<100,  59,  75,  84,   7, 212,  31, 194>>,  \* 13988132095580126052
          <<110,  74, 120, 104, 231,  56, 190, 105>>,  \* 7619590186098772590
          <<100, 103, 110, 116, 101, 203, 149,   8>>,  \* 618624160438839140
          <<185, 141, 231, 119, 104, 154, 148, 169>>,  \* 12219561462441938361
          << 87,  25, 224,  30,  82,  26,  54,  99>>,  \* 7148930398504884567
          << 82, 149,  64,  41, 121,  85, 103, 172>>,  \* 12422992075996304722
          <<  8,  26, 225,  80, 202, 249,  14, 182>>,  \* 13118697411912473096
          <<147,  58, 232, 127,  60,  98, 129, 185>>,  \* 13367073180995828371
          << 65,  93,  55, 216,  83, 179,  62, 147>>,  \* 10610114944822631745
          << 45, 230, 253, 149, 117, 244, 158, 167>>,  \* 12078360036519044653
          <<144, 134, 136, 119, 235,  79, 196, 241>>,  \* 17421137131317266064
          <<117, 179,  88, 158, 170,  38, 109,  22>>,  \* 1615990355538785141
          <<107, 170, 123, 165,  72,  40,   2, 144>>,  \* 10376900783894145643
          <<219, 138, 107, 208,  94,  59, 235, 103>>,  \* 7488144083843255003
          <<124, 231, 187, 179, 184,  11,  83, 104>>,  \* 7517365090928813948
          << 17, 247, 107, 239, 105, 192, 119,   4>>,  \* 321937459601209105
          <<109,  78, 135, 222, 110, 253,  78, 151>>,  \* 10902930400532188781
          << 89, 214,   5, 116, 148, 110,  24, 226>>,  \* 16291893235893524057
          <<143, 181, 130, 247, 233, 146, 214, 130>>,  \* 9427884403524285839
          <<152,  13, 131, 129, 155, 134, 111, 188>>,  \* 13578219403996237208
          << 35, 212, 163, 141, 226, 180,  85, 108>>,  \* 7806344414248555555
          <<224,  39, 239, 146, 194, 114,  17,  22>>,  \* 1590178323452864480
          << 94, 121,   1, 217,  32, 240, 124,  62>>,  \* 4502737751334025566
          << 94, 100, 170, 210,  35, 210,  31, 204>>,  \* 14708705959315399774
          <<185,  42, 192, 195, 137,  70,  28, 244>>,  \* 17590011802110929593
          <<169, 133,  87, 118, 147,   3,  45, 111>>,  \* 8011063244042503593
          << 96,  43, 238, 172, 216, 248, 203,  46>>,  \* 3372062355514862432
          <<157, 124, 195, 132, 210, 137, 107, 110>>,  \* 7956604703943654557
          << 57,  71, 137,  16,  89, 177,  91, 100>>,  \* 7231568622761101113
          << 94,  82, 207, 218, 185,  79,  75,  45>>,  \* 3263790014618620510
          <<140, 168, 155,  73, 181,  82, 191,  74>>,  \* 5386114617935898764
          <<110, 161, 216, 178,   5,  91, 153, 239>>,  \* 17264930726535012718
          <<235,  89, 100, 151,  78, 212,  11, 237>>,  \* 17080979445745211883
          <<189, 118,  11,  63, 193,   2, 115, 227>>,  \* 16389446497941026493
          <<187,  86, 133,   6, 123, 107,  94,  17>>,  \* 1251555922590127803
          <<137, 117, 148, 254,  36,  58, 131,  24>>,  \* 1766319409423742345
          << 33,  92,  56, 180,  21,  82, 214,  80>>,  \* 5824933421221698593
          <<198, 161, 171,  42,  40, 129,  97, 111>>,  \* 8025838020465500614
          <<216, 191, 167, 134,  35, 249, 195,  23>>,  \* 1712486214309232600
          << 60, 124, 198,  15, 109, 115, 233,  34>>,  \* 2515668779116428348
          <<215,  80, 255,  26,  48, 156, 137,  72>>   \* 5226880572965474519
        >>
      >>,
      <<
        <<
          <<119, 250, 144,  77, 133, 147, 234, 121>>,  \* 8784996223880854135
          << 27, 152,  79, 130, 101, 139,  87, 116>>,  \* 8383322499467679771
          <<232,  71, 193,  15,  66,  89, 182, 165>>,  \* 11940829602286487528
          <<113, 134,  15, 111,  95,  93, 101,  10>>,  \* 749107577493620337
          <<185,  94, 155,  13,  94,   9, 203, 161>>,  \* 11658422359938522809
          <<200, 170,  37, 151, 198,  40, 149,  61>>,  \* 4437497841247955656
          <<145, 254, 117, 241, 124, 165, 183, 208>>,  \* 15039671436672630417
          << 80,  88, 174,  75,  96, 178, 116,  61>>,  \* 4428360460268361808
          <<199,  16, 250,  12, 170, 130,  66,  36>>,  \* 2612794400702075079
          << 65, 102, 222,  89,  23,  42,  80, 210>>,  \* 15154659025882080833
          << 46, 246,  11, 215, 213, 125, 203,  82>>,  \* 5966000488771745326
          <<165, 139,  14, 222,   7,  71, 252,  64>>,  \* 4682695811674311589
          <<192, 229, 133, 117, 152, 101,  19, 172>>,  \* 12399365904562251200
          << 59,  61, 214, 100,  61,  60, 181,  79>>,  \* 5743563134163369275
          << 66, 148,   2,  17, 134,   4, 123, 190>>,  \* 13725569263199228994
          <<114, 158, 184, 182,   0, 232, 134, 108>>,  \* 7820192892738641522
          << 43, 173, 233,  59, 153,  67,  87,  93>>,  \* 6725918893915352363
          << 83, 103,  18, 225, 144, 232, 114, 100>>,  \* 7238103260086822739
          << 67, 162, 250,  77, 227, 241, 146,  33>>,  \* 2419261908419519043
          << 91, 131, 154, 243, 152, 203, 251,  26>>,  \* 1944371521922958171
          <<167, 228, 241, 138, 150, 254,  45,  28>>,  \* 2030558929543619751
          <<218, 224, 183, 163,  77, 167, 197,  43>>,  \* 3154111065943957722
          <<224, 105,  85,  98, 251,  38, 249,  67>>,  \* 4897988930870536672
          <<227, 230,  86,  50,  84,  40, 189,  27>>,  \* 1998798151709288163
          <<224, 236, 152, 224,  62,  85,   4, 120>>,  \* 8648130913002646752
          <<  7, 181, 195, 145, 176, 150,  64, 207>>,  \* 14934102049464497415
          <<181,  52, 181,  73, 159, 108, 166, 206>>,  \* 14890708649339335861
          << 86,  20, 121, 167, 158,  93,  20,  70>>,  \* 5049764018185114710
          <<237, 232,   6, 149, 169,  47, 254,  91>>,  \* 6628788106932185325
          << 91,  55, 196, 186, 118, 108, 180,  98>>,  \* 7112428968720217947
          <<140,  59, 134,  96, 195,  49, 170,  10>>,  \* 768481401627884428
          <<110,  63,  99,  92, 145, 210,  36,  96>>,  \* 6927893648564764526
          << 13, 115,  56, 172, 120,  13, 187, 205>>,  \* 14824457410356736781
          <<199, 185, 202, 107, 119, 184,  69,  68>>,  \* 4919540991021201863
          << 61,  22, 150, 127,  93,  76,  13, 245>>,  \* 17657853678445794877
          <<236, 123, 225, 155,  52, 194,  19,  34>>,  \* 2455519753056386028
          <<108, 127, 142,   1,  94, 214, 112, 224>>,  \* 16172661961128836972
          << 28, 101,  94, 215, 180, 219, 220, 168>>,  \* 12167841863002121500
          <<155,  47,  50, 190,  17, 180, 206, 184>>,  \* 13316779136479539099
          << 22,  16, 107,  62, 242,  45, 190, 253>>,  \* 18284102055623331862
          <<156,  35,   8, 131, 203, 193,  27, 244>>,  \* 17589865849446474652
          <<183, 125,  71, 173, 157, 105,  58,  93>>,  \* 6717797920114441655
          << 99,  96,   8,  75, 251, 128, 113, 215>>,  \* 15524331207306797155
          <<169,  28, 140,  49, 121, 239, 231, 236>>,  \* 17070876216372501673
          <<231,  25, 179, 161,  44,  29,  33,  27>>,  \* 1954875790784141799
          <<121,  50,  78, 222, 127, 248, 186, 147>>,  \* 10645093897317790329
          <<  4,  18, 139, 157,   6, 247,  86,  65>>,  \* 4708222068247433732
          <<241, 225,  25, 150, 134, 128, 116,  60>>,  \* 4356248055106363889
          <<203,  96, 219, 105,  43, 165,  98, 144>>,  \* 10404059695057428683
          << 65, 140, 155, 151, 133, 159, 230, 180>>,  \* 13035281567593499713
          << 41, 110, 236, 197, 141, 204, 222, 115>>,  \* 8349335668474539561
          <<252,  85,  53, 222, 235, 247,  97,  55>>,  \* 3990743337244382716
          <<151,  24,  36, 185, 142, 104, 128, 207>>,  \* 14952065725070842007
          <<129,  47, 243, 246,  50, 167, 117,  96>>,  \* 6950645437249564545
          << 51, 203,  35,  82, 219, 239, 114,  78>>,  \* 5652844207558347571
          << 98, 210,  22,  27, 154,  79,  43,  87>>,  \* 6281201628596327010
          << 15, 167,  14,  55, 241, 114, 106, 150>>,  \* 10838601833556911887
          <<  4, 227, 194,  18,  29,  20, 184,  42>>,  \* 3078232460409103108
          <<205, 129, 243, 114, 186, 216, 142, 232>>,  \* 16757569558796272077
          <<212, 187,  21, 240, 198,  13, 150, 187>>,  \* 13517006479681764308
          <<201, 192,  35,  52, 229, 100,  16,  55>>,  \* 3967782207298453705
          << 64, 172, 147,  90, 166, 207, 171,  37>>,  \* 2714491513812003904
          << 23, 198, 254, 242, 205,  47,   9,  46>>,  \* 3317235162126665239
          <<236, 123,  29, 193,  11, 172, 235, 141>>   \* 10226456545359395820
        >>,
        <<
          <<203,  56, 171, 137, 185,  78, 198, 197>>,  \* 14251164629646129355
          <<161, 186, 160,  30,   1, 163,  35, 208>>,  \* 14998010409278028449
          <<137,  25, 155,  93, 255, 209, 178, 215>>,  \* 15542716158726314377
          << 96,  45, 205, 182, 199, 113, 174, 213>>,  \* 15397369278605634912
          << 63,  80, 217,  77, 203, 227, 170,  84>>,  \* 6100939107550711871
          << 97,   1,  54, 118,  18, 198, 236, 120>>,  \* 8713557161650028897
          <<160, 180, 132,  89, 168, 230,  97,  98>>,  \* 7089200899188634784
          <<149, 130, 165, 186, 108,  29, 174, 250>>,  \* 18063407508254720661
          << 31,  61, 216, 134, 249,  93,  50,  60>>,  \* 4337632717401767199
          <<234, 129,  53, 105,  16,  42, 184,   5>>,  \* 412125615877358058
          << 39,  92,  63, 132,  58,  88, 168,  83>>,  \* 6028165109585501223
          <<101, 244, 168,  52,  37, 165,  52, 213>>,  \* 15363085808083465317
          <<233, 136, 192, 189, 253, 206, 206, 202>>,  \* 14613845430069397737
          <<187, 253, 230, 232, 201, 227,  75, 196>>,  \* 14144649511022558651
          <<251, 176,  66,  20,  50, 122,  17, 121>>,  \* 8723888308700229883
          <<255, 102, 170,  43,   4, 171,  92, 198>>,  \* 14293487351767918335
          <<184, 118, 147,  14, 105, 241, 213, 134>>,  \* 9715937204640118456
          <<207,  58, 217, 108, 178, 181, 181, 160>>,  \* 11580361794788080335
          << 63,  49,  66, 255,  55,  10, 180,  12>>,  \* 915367859885060415
          <<251, 162, 190, 194,  67,  14, 163,  89>>,  \* 6459021974772294395
          <<159,  77,  75, 207, 235, 158,  94, 167>>,  \* 12060251587777088927
          <<154, 226, 136, 163, 127,  29, 200,  76>>,  \* 5532704576266363546
          << 43,  54, 137, 123, 176, 204,  22, 201>>,  \* 14489993909470049835
          << 25,  21,  72, 177, 181, 129, 245, 227>>,  \* 16426177833267107097
          <<  4,  26, 188,  93,  39,  41,  16,  50>>,  \* 3607428550576839172
          << 90,  55,  92,  65, 144, 255,  57, 103>>,  \* 7438257254616020826
          << 95, 160,  22,  71, 142, 235,  97,  19>>,  \* 1396656355772112991
          << 72, 172, 141, 205, 219, 165, 120, 119>>,  \* 8608813051183737928
          <<173, 202,  63, 123,  93,  66, 226, 228>>,  \* 16492817754651347629
          << 47, 105,  73, 233, 144,  12,  39, 248>>,  \* 17881274662026570031
          << 70, 147,  74,   4, 183, 253, 236,  31>>,  \* 2300492472172319558
          <<154, 169,  52, 188, 243, 204,  31,  61>>,  \* 4404464307798321562
          <<241, 179,  28, 203,  45, 195,  89,   9>>,  \* 673784220717200369
          << 23, 218, 136,  52, 173, 137, 103,  11>>,  \* 821776834022136343
          <<165, 254, 184, 250, 134, 136, 169, 137>>,  \* 9919609767573651109
          << 77, 205, 169, 240,   7,  42, 125,   9>>,  \* 683748932020981069
          << 33,  14,  61,  71,  87, 137,  81, 118>>,  \* 8525746577539403297
          <<180, 215,  16,  44,  99, 184, 158,  89>>,  \* 6457801651776444340
          <<147, 166,  64, 117,  19, 199, 222, 133>>,  \* 9646366338259658387
          << 75,  88,   4, 193, 237,  54, 204, 192>>,  \* 13892539345304574027
          <<179,  79, 240, 195,  98,  92,  22, 237>>,  \* 17083943815740411827
          <<150, 114, 248,  63, 126,  44,  65, 200>>,  \* 14429863601822528150
          << 21, 106, 114, 228,   0, 206, 221, 168>>,  \* 12168108271452973589
          <<113, 170,  97, 234,  51, 107, 180,  98>>,  \* 7112427582244629105
          << 34, 113, 130, 149, 185, 136, 168, 212>>,  \* 15323648062786793762
          <<140,  38, 237,  82, 188,  21, 109, 249>>,  \* 17973045586494826124
          <<128, 100, 103,  22,  90,  23, 110, 179>>,  \* 12929297255917642880
          << 95,  52, 131,  49, 179,  67, 169, 104>>,  \* 7541633487917495391
          <<123,  48, 210,  66,  39, 216, 247, 224>>,  \* 16210663046879785083
          <<105, 162, 229,  23,  85, 145, 230,  95>>,  \* 6910370472905777769
          <<107,  96, 123, 194,  86,   5, 203, 115>>,  \* 8343768604822167659
          <<230, 109, 213, 245, 111, 110,  96,  48>>,  \* 3485907538729594342
          << 81,   0, 205,  31, 123,  62, 150,  98>>,  \* 7103934160758964305
          << 98, 159,  50,  15,  81,  76,   4,  68>>,  \* 4901126205516980066
          <<190, 212, 246, 219, 131,  74,  94,   4>>,  \* 314770954154071230
          << 94,  11, 156,  45,  15,  99,  93, 191>>,  \* 13789286550919187294
          <<153,  48,  86, 247, 124,  20, 207, 237>>,  \* 17135937634126147737
          <<  9,  11, 107,   8, 183, 198, 202, 245>>,  \* 17711186974010444553
          <<  5,  75,  45,  14,  63, 150, 185,  49>>,  \* 3583060176114895621
          << 11, 228,   2, 194,  80, 198,  49, 180>>,  \* 12984377250840503307
          << 87, 234, 228, 236, 206,   3, 235, 124>>,  \* 9001292467502639703
          <<144, 254,  75,  76,   4, 253, 150,  73>>,  \* 5302703806177083024
          <<  2, 128,  53,  41, 128,  22,  44, 164>>,  \* 11829855060898447362
          <<163, 200, 122, 196,   5, 215,  37, 108>>   \* 7792871150005700771
        >>,
        <<
          <<223, 157, 233, 192, 212, 116,  24,  21>>,  \* 1520093331355966943
          << 55,  71,  27, 150, 154, 204,  15, 205>>,  \* 14776253866741286711
          << 71, 252, 131,  89, 193,   3, 103,  25>>,  \* 1830435902514789447
          <<117,  25,  44, 184, 126, 154,  36,  94>>,  \* 6783716807773264245
          <<243,  16, 120, 140, 226, 230, 143,  97>>,  \* 7030091404042309875
          <<157,  26,  83,  14,  27, 118, 223,  23>>,  \* 1720223441255340701
          << 49,  72, 228,  98,   6, 152, 151, 186>>,  \* 13445382365734258737
          <<193,  53, 249, 151,  73, 199, 227, 158>>,  \* 11449213796602164673
          <<168, 227, 128, 207, 103, 134, 233, 150>>,  \* 10874370555683857320
          << 89,  60,  71,  74, 187, 251,  54, 253>>,  \* 18246047722161781849
          <<151,  24, 239,  39, 156,  17, 212,   6>>,  \* 492037621672777879
          <<191, 247,  85, 251, 236,  36, 111, 229>>,  \* 16532473357347977151
          << 16,   0, 106,  55,  18,  99, 182,  81>>,  \* 5888002492723757072
          <<215, 233, 155,  77,  12,   7, 107, 164>>,  \* 11847570994151287255
          <<190,  59,  13,  59,  39,  43, 254, 194>>,  \* 14050715334936968126
          <<224,   7,  66,  36, 225,  44, 156,  75>>,  \* 5448278994699028448
          << 17,  29, 128,  37,  14,  17,  67,  70>>,  \* 5062909158550936849
          <<205, 199, 178, 113,  79,  77,  29, 159>>,  \* 11465405229960447949
          <<242, 236,  96, 127, 158, 135, 148,  38>>,  \* 2779995984806079730
          <<  7,  23, 222, 123, 200, 255, 134, 112>>,  \* 8108449415663851271
          <<180, 162, 193, 221, 101, 145,  60,  82>>,  \* 5925771076410909364
          <<201,  37, 172,  15,  22, 180,  10,  61>>,  \* 4398525992925930953
          <<147,   9,  83, 225, 229, 252, 161, 209>>,  \* 15105632689435380115
          << 69, 188, 104, 139,   3, 166,  36, 114>>,  \* 8224881353639377989
          << 18, 180, 139, 118,  95,  64,  98, 182>>,  \* 13142137441375466514
          << 51, 228, 209, 183, 169,  15, 149,   5>>,  \* 402244963327403059
          << 22,  50, 194,   0,  16, 117, 169, 221>>,  \* 15972426265038828054
          <<205,  17,  27, 133, 178, 139,   9, 207>>,  \* 14918608839495061965
          <<111,  60, 119, 224, 106, 125,  98,  66>>,  \* 4783523652206804079
          <<246, 104,  59,   9,  46,   4, 204,  76>>,  \* 5533802637901392118
          <<182, 103, 136,  78,  66,  11,  17, 220>>,  \* 15857468142361536438
          <<184,  83, 114, 223, 189,  72, 183,   6>>,  \* 483935465300448184
          <<123,  95,  21,  32, 247, 125, 133, 243>>,  \* 17547570023467671419
          <<213,  67, 134,  31, 255, 240, 137, 126>>,  \* 9118083899124499413
          << 87, 200, 150, 195, 182, 205, 251, 222>>,  \* 16067662280423557207
          << 74, 116, 237, 151, 133,   9,  59, 206>>,  \* 14860481864823305290
          <<185, 218, 240,  28,  44, 225,  22, 174>>,  \* 12544461391667452601
          << 33,  52, 148, 178,  87, 183, 180, 228>>,  \* 16479998523741582369
          <<240, 123, 242, 174,  27, 246, 209,  27>>,  \* 2004653907916258288
          <<207,  23, 203, 235,  64, 117,   0, 139>>,  \* 10016134492966295503
          <<249, 177, 206, 130,  78, 209,  93, 203>>,  \* 14654098897665700345
          <<218, 132,  91, 121,  18, 226, 118, 216>>,  \* 15597902928417621210
          <<198, 116,  28, 235,  39, 127,  19, 248>>,  \* 17875771155388593350
          <<250, 181, 174,  11, 187,  86,  35, 169>>,  \* 12187680377949566458
          << 25, 180, 170, 180, 110, 248, 122,  91>>,  \* 6591854158971319321
          <<201,  62, 209, 254, 141, 105, 144, 151>>,  \* 10921345154959883977
          << 44, 205,  45,  55, 192, 168,  10,  97>>,  \* 6992586914959052076
          << 99, 130, 128, 215, 218, 226, 126,  95>>,  \* 6881186710214967907
          << 59,  20,  42, 178,  13,  23, 162, 140>>,  \* 10133687459128153147
          << 50, 178, 140, 241,  67, 159, 103, 153>>,  \* 11053978924568326706
          << 23,  12, 129, 203, 245, 118, 109, 193>>,  \* 13937927219834850327
          <<131, 214, 199, 128, 148,  26,  12,  43>>,  \* 3101883468469491331
          << 44, 144, 136,  16, 185, 120, 243, 116>>,  \* 8427212063981998124
          <<188, 174,  27, 113, 134, 109,   9,  29>>,  \* 2092323926080990908
          <<130,  49, 126, 143, 217,  97, 195,  49>>,  \* 3585817315360256386
          << 11,  86, 247, 186,   5,  42, 139, 218>>,  \* 15747726726131045899
          << 28,  55, 127, 203, 248, 154,  40, 228>>,  \* 16440560833072674588
          << 17,  10, 151,  53,   0,  82,  34, 255>>,  \* 18384346789732354577
          <<156, 138,  11,  49, 131, 209, 234, 232>>,  \* 16783457322743335580
          <<162,  78, 252, 243, 193, 238,  39, 163>>,  \* 11756627869063466658
          <<188,  41,  79,  26,  39,  21, 252, 154>>,  \* 11167824433661290940
          << 39, 149, 199,  38, 124, 103,  20, 137>>,  \* 9877633665654560039
          <<223, 137,  64,   8,  69, 131, 122, 236>>,  \* 17040076472624122335
          << 19, 111, 215, 219, 230, 198, 175,  44>>   \* 3220010953426300691
        >>,
        <<
          <<185, 251,  25, 203, 210, 148, 222,  33>>,  \* 2440551681152908217
          <<137, 121, 241,  78, 213, 249, 116, 243>>,  \* 17542921143062722953
          << 18, 213, 102,  15,  57,  90,  13, 155>>,  \* 11172685451694101778
          <<216, 154, 118,  63,  16, 167, 140,  14>>,  \* 1048396501496535768
          << 97, 239,  14, 107, 144,  60,  46,  89>>,  \* 6426140309273374561
          <<203, 100, 221, 161, 194, 218,   9, 175>>,  \* 12612852760901936331
          << 74,  96,  40,   3, 155, 190, 253,  20>>,  \* 1512574622848540746
          <<241, 184, 251,  58, 232, 217, 239, 168>>,  \* 12173187909250955505
          << 46,  42, 242,  60, 189, 107,  18,  28>>,  \* 2022797643158268462
          <<197, 239,  96,  42,  82, 255, 125, 166>>,  \* 11997025710748266437
          << 73, 120, 218,  90, 195, 205, 211, 106>>,  \* 7697722427032893513
          <<  4,  33, 224, 201, 179, 100, 118,  43>>,  \* 3131801314231591172
          <<171, 164,  58, 201,   8, 221, 168, 225>>,  \* 16260489484426716331
          << 88, 198, 205,  72,  80, 126, 189,  57>>,  \* 4160620514044135000
          <<188,  86, 244,  65, 149,   8,  11,  28>>,  \* 2020718294955480764
          <<158, 222, 185, 167, 216,  22,  57,  47>>,  \* 3402776113237843614
          <<126, 124, 119, 205, 235, 176, 121,  24>>,  \* 1763635255903222910
          <<  0, 252,   2, 239, 186, 112, 185,  20>>,  \* 1493348699626208256
          <<183,  85, 119,  57, 218, 120,  23, 166>>,  \* 11968167413422708151
          <<225, 241,  31, 187,  41, 146, 204,   4>>,  \* 345811979331432929
          <<232, 200,  41, 174,  39, 184, 113,  88>>,  \* 6373077428271171816
          <<207, 125,  80, 111, 220,   4,  37,  34>>,  \* 2460378116234706383
          <<254, 199,  81, 113,  82, 157, 220, 105>>,  \* 7628144846272841726
          <<251,  43, 171,  75, 138, 119, 238, 184>>,  \* 13325719783294577659
          << 78, 204, 238,  37, 187,  83, 102, 204>>,  \* 14728551694622182478
          <<158, 198, 242, 238, 170,  28, 193,  52>>,  \* 3801351080956315294
          << 50, 230, 158, 131, 216,  67, 176, 206>>,  \* 14893478564914456114
          <<200,  91, 109, 227,  64,  66, 246,  94>>,  \* 6842729530296982472
          <<110,  25,  50,  34, 178, 236, 108,  98>>,  \* 7092303763023731054
          << 51,   3, 223, 236, 154, 182, 238, 183>>,  \* 13253731529913205555
          <<207, 223, 176, 179, 170,  65,  51, 168>>,  \* 12120103223599095759
          <<183, 100,  39,  89, 229, 204, 214, 187>>,  \* 13535231015523935415
          <<188, 133,  69, 192, 173, 146, 212, 142>>,  \* 10292012323401205180
          <<130, 137,  44,  58, 101, 250, 154,  24>>,  \* 1773004715998349698
          << 44,  81, 200, 158, 195, 203,  36, 233>>,  \* 16799776551041782060
          <<125,  29, 171, 116,  52,  24, 175, 151>>,  \* 10929981434226220413
          << 43, 200,  50, 217, 196, 204, 183,  78>>,  \* 5672227401526069291
          << 24,  10, 137, 237, 115,  63, 231, 210>>,  \* 15197185234723998232
          <<255,  37,   5, 177,  44,  64,  78,  32>>,  \* 2327868618089768447
          <<232, 119, 248, 200,  13, 121,  63, 162>>,  \* 11691196257790359528
          <<215, 130,   0, 189, 134, 228,  52, 108>>,  \* 7797108122232849111
          << 67, 232, 233, 130, 245, 254,  90, 239>>,  \* 17247378053385545795
          <<214,  88,  34,  98, 102, 172, 146, 238>>,  \* 17190992283359664342
          <<156, 229,  87,  41, 243,  80,  70, 163>>,  \* 11765180081852900764
          << 68, 233,   1, 111, 214,  95, 207, 237>>,  \* 17136020481758062916
          <<141, 157,  11, 200,  37, 176, 205, 230>>,  \* 16631142675265592717
          <<107, 114, 123, 204, 243, 163, 149,  38>>,  \* 2780308612474172011
          << 72, 122, 130, 137, 172, 183,  15, 189>>,  \* 13623309349488327240
          <<253, 157, 231, 163, 151, 193,  40, 139>>,  \* 10027477427374497277
          <<135, 102, 129, 153, 194, 123,  72, 151>>,  \* 10901098973779551879
          << 33,  50, 198, 243, 237,  94,  12, 189>>,  \* 13622367348979020321
          <<167, 164,  94, 167,  34,   5,  65, 239>>,  \* 17240066494945993895
          << 49,  14,  17,  69, 107,  89,  36,  50>>,  \* 3613111118313098801
          <<225,  67,  11,  43, 152, 142, 230,  49>>,  \* 3595718136710251489
          <<152, 158, 126, 201, 116,  90, 173, 215>>,  \* 15541177346768674456
          << 12,  97,  83, 155,  12, 151,  27,  38>>,  \* 2745954478213783820
          <<123,  14, 142, 214,  12, 117, 138,  41>>,  \* 2993333600340807291
          <<201,  87,   8, 136, 180,  46, 134, 110>>,  \* 7964104343962539977
          <<215, 146,  29, 161,  48, 157,   4,  28>>,  \* 2018911365155885783
          <<191,  38, 162,  48,   9,  17,  55,   4>>,  \* 303730231039108799
          <<125,  22, 162, 170, 211,  29, 216, 115>>,  \* 8347454704269268605
          <<155, 108,  41,  21,  30,  13, 131, 210>>,  \* 15168982392769178779
          <<222,  17, 175, 116, 229,  15, 216,  30>>,  \* 2222543894286897630
          << 60, 191, 254,  36,  84,  73, 195,  98>>   \* 7116612461922271036
        >>,
        <<
          << 58, 220, 226, 182, 180, 205, 108,  92>>,  \* 6659924125020249146
          <<  5,  61,  26, 176,  16, 124, 121,  89>>,  \* 6447320752673406213
          << 18,  59, 200,  10, 224,  49,  85, 138>>,  \* 9967928188577790738
          <<105, 116, 124, 135,  56,  47,  88, 181>>,  \* 13067246238653248617
          << 54, 104,  55, 120,   8, 149, 117, 243>>,  \* 17543091787100809270
          <<147,  19, 160, 123, 104,  58, 131, 123>>,  \* 8900021509039330195
          <<136,  86, 122, 124, 101, 160, 240, 237>>,  \* 17145380139140011656
          <<167, 104, 141,  15,  16, 225, 148, 116>>,  \* 8400586664049469607
          <<215, 103, 118, 243, 108,  43, 210, 149>>,  \* 10795739003701585879
          << 43,  97, 248, 191,  95, 169, 162, 214>>,  \* 15466110299051417899
          <<126, 240,  81,  83, 135, 178, 133, 171>>,  \* 12359481046676402302
          << 22,  46, 231, 206,  52, 249, 194,  98>>,  \* 7116524366403677718
          <<249,   8, 189,   2, 139, 192, 100, 224>>,  \* 16169260265445853433
          << 37, 220, 249,  15,  52, 149, 163, 120>>,  \* 8692955756594060325
          << 51, 250, 142, 186, 168,  13, 149, 230>>,  \* 16615201418588912179
          <<243, 169,   0, 150, 192, 225, 210, 182>>,  \* 13173840077278718451
          << 41,  64, 200,  19,  56, 229,  42, 160>>,  \* 11541289024103137321
          << 40,  58, 158,  64,  56,  82, 179,  87>>,  \* 6319485103686695464
          <<189, 160, 217, 220, 193, 100, 114, 246>>,  \* 17758367064472002749
          <<221,  36,  95,  56, 133,  71,  28, 188>>,  \* 13554787615980332253
          <<235, 156,  87,  44, 193, 238, 130, 161>>,  \* 11638126900518821099
          <<149,  64,  63, 131,  68, 215, 167, 193>>,  \* 13954358659690479765
          << 15, 129, 120, 231, 175,  80, 105, 138>>,  \* 9973591566221607183
          <<104,   3, 219, 232, 222, 130,  48, 238>>,  \* 17163362073809978216
          <<216, 201, 206,  45,   8, 118,   4, 254>>,  \* 18303884563040881112
          << 33, 212, 171, 227, 200, 254, 139, 241>>,  \* 17405285323670017057
          <<207,  13,  74,   3, 255, 111, 194,   4>>,  \* 342959662696107471
          << 70, 214,  28, 131, 143, 172, 179,  18>>,  \* 1347610445893916230
          << 87, 199,  81, 196,  41,  69, 206,  82>>,  \* 5966782602002155351
          << 74,  62,  98, 124,  16, 231, 105,  97>>,  \* 7019395552225934922
          <<  0,  40, 181, 249,  89,  95, 182,  69>>,  \* 5023307274424494080
          << 66,  70, 138,  31,  12,  37, 118, 206>>,  \* 14877119153064003138
          << 48, 132,  33, 235, 178, 222, 109, 176>>,  \* 12713062183167165488
          <<219, 160, 163,  29, 248, 147, 204,  45>>,  \* 3300175320814166235
          << 30,  86,  75,  87,  69, 111, 133, 176>>,  \* 12719695066185815582
          <<  0, 185, 125,  11, 226, 193,   5, 215>>,  \* 15494003269637617920
          << 66, 206, 190,  17, 184, 193,  20, 173>>,  \* 12471806264411606594
          << 27, 205,  12, 219, 234, 155, 145,   9>>,  \* 689503650964098331
          << 17, 209,  51, 228, 157, 111,  10, 181>>,  \* 13045361994561212689
          << 21, 116,  73, 231, 225,  37,  66,  94>>,  \* 6792032840206349333
          <<238,  77, 204, 249,  75,  95, 220, 118>>,  \* 8564825371269942766
          << 21,  73, 154, 156,  23, 249, 151, 164>>,  \* 11860222023510411541
          <<109,  72, 159, 225, 230,  90, 173, 114>>,  \* 8263360838969018477
          <<107,  89, 191, 190, 231,  39,  34,  64>>,  \* 4621300043926690155
          <<238, 192, 110, 220, 114,  41,  41,  68>>,  \* 4911502441925492974
          <<104, 234,  85,  56, 228, 196, 162,  80>>,  \* 5810422953738103400
          <<117, 122,   8, 198,  20, 121,  80, 156>>,  \* 11263635798182361717
          << 85, 242, 168, 206, 183, 113, 131, 130>>,  \* 9404485481139860053
          <<  9, 190, 240,  38, 248,  54, 187, 216>>,  \* 15617136572270427657
          <<177,  91, 170,  65, 125, 244, 243,  33>>,  \* 2446567841402084273
          <<207,  51, 155,  50,  70, 250, 183, 115>>,  \* 8338408414503449551
          << 50, 228,  29, 221, 150,  90,  20, 213>>,  \* 15353996633614181426
          <<242,  67, 247,  41, 226, 224, 198,  62>>,  \* 4523550137711543282
          << 83, 231, 127, 129, 154,   2, 226, 172>>,  \* 12457522381881075539
          <<141, 173,   7, 237,  65,  23, 203,  56>>,  \* 4092390258313244045
          <<118,  14,  20,  30, 213, 143, 117,  51>>,  \* 3708028013704908406
          <<192, 197, 172, 235, 228, 169, 142, 231>>,  \* 16685460470125872576
          <<192, 128,   0, 249, 174,  97,  39, 228>>,  \* 16440216368869048512
          <<169, 143, 169,  62, 140, 237, 189, 178>>,  \* 12879711695951990697
          << 77, 111, 189,  17,  47, 234, 124,  66>>,  \* 4790961591497355085
          <<104, 234,  92, 254, 132,  94, 181, 123>>,  \* 8914134962745961064
          << 65, 220, 193,  64,  74,  85,  55, 216>>,  \* 15580015213313907777
          <<207, 139, 131,  93, 113, 110, 247, 119>>,  \* 8644499442940218319
          << 33, 168, 105, 218, 176, 124, 217,   0>>   \* 61217168966658081
        >>,
        <<
          <<159,  62,  13, 208,  48,  51, 108,  40>>,  \* 2912759343743843999
          << 27, 125, 138,  51,  50, 123, 145, 206>>,  \* 14884813698979495195
          <<207, 129,  96,   9, 174,  38, 242, 227>>,  \* 16425233319897104847
          <<214, 107, 108, 197, 208,  11, 216, 203>>,  \* 14688503175962192854
          << 83,   1, 227,  55, 182,  25, 214, 230>>,  \* 16633510544151871827
          <<171,  85, 230, 248,  42, 228, 227,   9>>,  \* 712664039270274475
          << 23,  84, 133,  17,  95, 252,  32,   8>>,  \* 585745436804207639
          <<219, 214, 178, 134, 167,  41, 150, 102>>,  \* 7392141637871392475
          << 60, 143,  70, 250, 218, 222,  23, 255>>,  \* 18381405436219133756
          <<122, 111,  82,  72, 102, 220, 218, 203>>,  \* 14689295466480430970
          << 57, 102, 134, 216,  17, 171,  40, 129>>,  \* 9306876723096610361
          <<108, 164, 135,   9, 177, 225, 171, 175>>,  \* 12658459328140256364
          << 72,  75, 112, 240, 162,  57, 188,  41>>,  \* 3007342023158025032
          <<229, 192, 162,  49, 128, 221,   6,  56>>,  \* 4037157658642530533
          <<217,  80, 189,  13,  22,  57,  38, 111>>,  \* 8009151754207580377
          <<153,   2, 209,  94,  74, 125,  71,  67>>,  \* 4847981282259436185
          <<217, 234, 120, 187, 180,  98, 229,  19>>,  \* 1433660584766270169
          << 14, 144, 168, 233,  12,  86,  49,  73>>,  \* 5274091252087296014
          <<236, 172, 111,  89, 207,  23, 255, 184>>,  \* 13330399601366117612
          <<135, 183, 229, 134,  25, 210,  53, 230>>,  \* 16588395809568307079
          <<206, 192,  49,  71, 186, 158, 131, 200>>,  \* 14448566552430231758
          <<235, 120, 214, 157, 147,   7,  45, 185>>,  \* 13343329601558313195
          << 40,  93, 240,  93,  55, 106, 186, 168>>,  \* 12158146930071854376
          << 90,  23, 255, 124,  50, 226,  65,  58>>,  \* 4197885034159347546
          <<  3, 127,  15, 213,  82, 116, 207,  47>>,  \* 3445100139072421635
          << 79, 187,  30, 210,  20,  39, 128, 230>>,  \* 16609318396120447823
          <<164, 216,  53,  85,  58, 195, 217,  83>>,  \* 6042075030399342756
          <<  6,  88, 158, 102, 227, 167, 108, 191>>,  \* 13793584353850054662
          << 54,  30, 219, 128, 234,  21,  88, 222>>,  \* 16021579771298913846
          <<184,  77,  28, 188, 119, 226, 103, 153>>,  \* 11054052814289128888
          <<213,  79,   0, 178, 247, 176,  18, 223>>,  \* 16074104597928497109
          <<122, 116, 226, 191,  48, 135, 250, 209>>,  \* 15130554541552071802
          <<246, 144, 228,  47, 123, 101, 241,  67>>,  \* 4895805849687331062
          <<  2,  78, 239,  90,  73,  57, 239,  21>>,  \* 1580544981451361794
          <<240, 175, 176, 173, 197,  80, 168,  33>>,  \* 2425277209291829232
          <<136,  43,  43, 149, 117,  82,  37, 109>>,  \* 7864782989239724936
          << 67,   3, 238, 217, 174,  13,  25, 244>>,  \* 17589104864303907651
          << 40, 184,  64, 207,  11, 227, 249, 211>>,  \* 15274489251065018408
          <<124, 210,  85, 170, 109,  72, 203,  70>>,  \* 5101250638773604988
          <<160, 117, 122, 205, 109,  97, 121,  34>>,  \* 2484123793698223520
          <<168, 250, 218, 131, 173,  12, 153,  69>>,  \* 5015053599434799784
          <<136, 204, 199, 190, 129,  37,  25, 228>>,  \* 16436209554247109768
          << 86, 220,  60,  88, 106, 107,  37, 146>>,  \* 10530941408166861910
          <<232, 231,  79,  87, 236, 156,  92, 110>>,  \* 7952403580920522728
          <<192, 135, 165,  71, 105, 229, 221, 203>>,  \* 14690149799888783296
          <<118,  27, 196, 203,  71,  99, 152,  52>>,  \* 3789888246444727158
          <<242, 216, 249, 120, 134, 248,  80, 251>>,  \* 18109247358095710450
          <<242, 173,   6, 152,  26,  48, 221,  42>>,  \* 3088677810223885810
          << 93, 118,  81, 107, 146, 231, 179,  69>>,  \* 5022612625499977309
          <<165, 159,  57,  51,  90,  19, 181,  98>>,  \* 7112612464628965285
          <<141, 204, 123, 111,   4, 127,  94,  63>>,  \* 4566226729227242637
          <<252, 233, 163,  24, 193, 145, 249,  69>>,  \* 5042221516346092028
          <<232, 162, 227, 243, 255,  36, 203, 233>>,  \* 16846599512836514536
          <<218, 115, 204,  17, 154, 124, 210,  86>>,  \* 6256199833536459738
          <<148, 248, 239, 122,   1, 127, 246,  27>>,  \* 2014937527629117588
          <<144, 104, 232, 156, 252,  27,  47, 246>>,  \* 17739428229013858448
          <<224, 211, 130,  85,   6,  26,  11, 194>>,  \* 13982298082608600032
          <<143, 224,  82,  75, 130,  31,  94, 239>>,  \* 17248258267345510543
          <<119,  98, 176,  50,  34,  19, 200, 252>>,  \* 18214829730500207223
          <<189,  38, 115, 234,  11,  68, 122, 105>>,  \* 7600462139109877437
          << 90,  56, 220, 137, 169, 130, 137,  94>>,  \* 6812119576048580698
          <<132,  96, 109,  89, 183,  93,  39,  89>>,  \* 6424206435528040580
          <<105,  63,  33, 179,   2,  56, 197,   6>>,  \* 487857718885957481
          << 23,  84, 226,  77,  39, 215, 146, 185>>   \* 13371986807426798615
        >>
      >>
    >>

PieceIndex(p) == CHOOSE i \in 0 .. Len(PieceALL) - 1 : PieceALL[i + 1] = p

\* zobrist::moved_piece
moved_piece(color, piece, square) ==
    PIECE_HASHES[ColorIndex(color) + 1][PieceIndex(piece) + 1][square + 1]
\* zobrist::castling_rights
castling_rights(rights) == CASTLING_HASHES[rights[1] + 1][rights[2] + 1]
\* zobrist::en_passant
zobrist_en_passant(file) == EN_PASSANT_HASHES[file + 1]
\* zobrist::side_to_move
side_to_move == BLACK_TO_MOVE

(***************************************************************************)
(* The hash of a position.  A hash is the set of the indices of its set    *)
(* bits; a key is toggled into it by exclusive or.  The section follows    *)
(* the update rule of the library's description: every discrete change of  *)
(* piece placement, side to move, castling pair and en-passant file        *)
(* toggles its key into the running hash.                                  *)
(***************************************************************************)
HashBits == 0 .. 63

\* h ^ key
toggle(h, key) == {i \in HashBits : (i \in h) /= TestBit(key, i)}

RightsPair(b) == <<b.castle_rights["White"], b.castle_rights["Black"]>>

\* The features of a position that carry a key, each with its key.
PieceKeys(b) ==
    UNION {UNION {{[feature |-> <<c, p, sq>>, key |-> moved_piece(c, p, sq)] :
                    sq \in occupancy(b, p, c)} : p \in Pieces} : c \in Colors}
HashKeys(b) ==
    PieceKeys(b)
        \cup {[feature |-> <<"castling">>, key |-> castling_rights(RightsPair(b))]}
        \cup {[feature |-> <<"en_passant">>,
               key |-> zobrist_en_passant(file_index(Unwrap(ep)))] :
                ep \in {x \in {b.en_passant} : IsSome(x)}}
        \cup {[feature |-> <<"side">>, key |-> side_to_move] :
                c \in {x \in {b.side} : x = "Black"}}

\* The hash computed from scratch: the exclusive or of the keys of the position.
compute_hash(b) ==
    LET keys == HashKeys(b)
    IN  {i \in HashBits : Cardinality({k \in keys : TestBit(k.key, i)}) % 2 = 1}

\* The castling pair and the en-passant file changing from those of position
\* old to those of position new.
toggle_rights(h, old, new) ==
    IF RightsPair(old) = RightsPair(new) THEN h
    ELSE toggle(toggle(h, castling_rights(RightsPair(old))),
                castling_rights(RightsPair(new)))
toggle_en_passant(h, old, new) ==
    LET cleared == IF IsSome(old.en_passant)
                   THEN toggle(h, zobrist_en_passant(file_index(Unwrap(old.en_passant))))
                   ELSE h
    IN  IF IsSome(new.en_passant)
        THEN toggle(cleared, zobrist_en_passant(file_index(Unwrap(new.en_passant))))
        ELSE cleared

\* The running hash after play_move_inplace(chess_move) took position b to
\* position after and returned state: one toggle per change the play made.
play_hash(h, b, chess_move, state, after) ==
    LET side == current_player(b)
        move_piece == piece_on(b, chess_move.start)
        dest_piece == IF IsSome(chess_move.promotion)
                      THEN Unwrap(chess_move.promotion) ELSE move_piece
        h1 == toggle_en_passant(toggle_rights(h, b, after), b, after)
        h2 == IF IsSome(state.captured_piece)
              THEN toggle(h1, moved_piece(Opposite(side), Unwrap(state.captured_piece),
                                          chess_move.destination))
              ELSE h1
        h3 == toggle(h2, moved_piece(side, move_piece, chess_move.start))
        h4 == toggle(h3, moved_piece(side, dest_piece, chess_move.destination))
    IN  toggle(h4, side_to_move)

\* The running hash after unplay_move(chess_move, previous) took position b
\* back to position after.
unplay_hash(h, b, chess_move, previous, after) ==
    LET mover == Opposite(current_player(b))
        move_piece == piece_on(b, chess_move.destination)
        start_piece == IF IsSome(chess_move.promotion) THEN "Pawn" ELSE move_piece
        h1 == toggle_en_passant(toggle_rights(h, b, after), b, after)
        h2 == IF IsSome(previous.captured_piece)
              THEN toggle(h1, moved_piece(current_player(b),
                                          Unwrap(previous.captured_piece),
                                          chess_move.destination))
              ELSE h1
        h3 == toggle(h2, moved_piece(mover, move_piece, chess_move.destination))
        h4 == toggle(h3, moved_piece(mover, start_piece, chess_move.start))
    IN  toggle(h4, side_to_move)

InitZobrist ==
    /\ board \in GameBoards
    /\ hash = compute_hash(board)
    /\ iter = NoIter
    /\ overflow_checks \in BOOLEAN
    /\ magic_moves = NoMagicMoves
    /\ history = <<>>
    /\ last = [op |-> "new", move |-> NoMove, before |-> board, state |-> NoState,
               hash |-> hash]
    /\ builder = NoBuilder
    /\ query = NoQuery
    /\ result = NoResult

\* position.play_move_inplace(m), the hash kept up to date.
PlayHashed ==
    /\ last.op /= "abort"
    /\ Len(history) < MaxDepth
    /\ \E m \in Moves(board) :
        LET r == play_move_inplace(board, m, overflow_checks)
        IN  IF r.aborted
            THEN /\ last' = [op |-> "abort", move |-> m, before |-> board,
                             state |-> r.state, hash |-> hash]
                 /\ UNCHANGED <<board, history, hash, iter>>
            ELSE /\ board' = r.board
                 /\ hash' = play_hash(hash, board, m, r.state, r.board)
                 /\ history' = Append(history, [move |-> m, state |-> r.state,
                                                before |-> board, hash |-> hash])
                 /\ last' = [op |-> "play", move |-> m, before |-> board,
                             state |-> r.state, hash |-> hash]
    /\ UNCHANGED <<builder, query, result, overflow_checks, magic_moves, iter>>

\* position.unplay_move(m, state) for the most recent play not yet undone, the
\* hash kept up to date.
UnplayHashed ==
    /\ last.op /= "abort"
    /\ history /= <<>>
    /\ LET h == history[Len(history)]
           r == unplay_move(board, h.move, h.state, overflow_checks)
       IN  IF r.aborted
           THEN /\ last' = [op |-> "abort", move |-> h.move, before |-> board,
                            state |-> h.state, hash |-> hash]
                /\ UNCHANGED <<board, history, hash, iter>>
           ELSE /\ board' = r.board
                /\ hash' = unplay_hash(hash, board, h.move, h.state, r.board)
                /\ history' = SubSeq(history, 1, Len(history) - 1)
                /\ last' = [op |-> "unplay", move |-> h.move, before |-> h.before,
                            state |-> h.state, hash |-> h.hash]
    /\ UNCHANGED <<builder, query, result, overflow_checks, magic_moves, iter>>

NextZobrist == PlayHashed \/ UnplayHashed

SpecZobrist == InitZobrist /\ [][NextZobrist]_vars

\* C11: after every play the running hash, updated by toggling the keys of the
\* changes the play made, equals the hash computed from scratch from the
\* resulting position; after every unplay it equals the hash computed from
\* scratch too, and is the hash the position had before the play undone.
C11_HashIncremental ==
    /\ last.op \in {"play", "unplay"} => hash = compute_hash(board)
    /\ last.op = "unplay" => hash = last.hash

\* C11: a capture that also changes the castling pair was played (the rook
\* on H1 takes the rook on H8), and the hash changed.
C11_Witness ==
    /\ last.op = "play"
    /\ last.move = Move(H1, H8, None)
    /\ IsSome(last.state.captured_piece)
    /\ RightsPair(last.before) /= RightsPair(board)
    /\ hash /= last.hash
    /\ hash = compute_hash(board)
    /\ iter = NoIter

(***************************************************************************)
(* The power-set iterator driven call by call.                             *)
(***************************************************************************)
\* Calls of next() made after it first returned None.
MaxNones == 2
\* Items taken from one iterator.
MaxItems == 128

\* The masks iterated over: every board made of seven squares, the first and
\* the last bit of the word among them, and the full board.
PoolSquares == {A1, A2, B3, D5, E4, G1, H8}
PowerSetMasks == (SUBSET PoolSquares) \cup {ALL}

\* A small usize as a 64-bit word
WordOf(n) ==
    <<n % Byte, (n \div Byte) % Byte, (n \div (Byte * Byte)) % Byte,
      n \div (Byte * Byte * Byte), 0, 0, 0, 0>>

\* size_hint(): 1 << count on a usize; a shift by 64 panics in a build with
\* overflow checks and is a shift by 0 otherwise.
size_hint(it, checks) ==
    LET n == count(it.board)
        size == ToWord({n % 64})
    IN  [aborted |-> checks /\ n >= 64, value |-> <<size, Some(size)>>]

InitPowerSet ==
    /\ query \in {[board |-> m] : m \in PowerSetMasks}
    /\ iter = PowerSetNew(query.board)
    /\ last = [op |-> "new", items |-> <<>>, nones |-> 0]
    /\ result = NoResult
    /\ overflow_checks \in BOOLEAN
    /\ board = ChessBoardDefault
    /\ history = <<>>
    /\ builder = NoBuilder
    /\ magic_moves = NoMagicMoves
    /\ hash = NoHash

\* iterator.next()
PowerSetNextCall ==
    /\ last.op /= "abort"
    /\ last.nones < MaxNones
    /\ Len(last.items) < MaxItems \/ iter.done
    /\ LET r == PowerSetNext(iter)
       IN  /\ iter' = r.iter
           /\ result' = r.item
           /\ last' = [op |-> "next",
                       items |-> IF IsSome(r.item)
                                 THEN Append(last.items, Unwrap(r.item))
                                 ELSE last.items,
                       nones |-> IF IsSome(r.item) THEN last.nones ELSE last.nones + 1]
    /\ UNCHANGED <<board, history, builder, query, overflow_checks, magic_moves, hash>>

\* iterator.size_hint()
PowerSetSizeHint ==
    /\ last.op \notin {"abort", "size_hint"}
    /\ LET r == size_hint(iter, overflow_checks)
       IN  /\ result' = r
           /\ last' = [last EXCEPT !.op = IF r.aborted THEN "abort" ELSE "size_hint"]
    /\ UNCHANGED <<board, history, builder, query, overflow_checks, magic_moves, hash,
                   iter>>

NextPowerSet == PowerSetNextCall \/ PowerSetSizeHint

SpecPowerSet == InitPowerSet /\ [][NextPowerSet]_vars

\* The subsets a mask has, for a mask of few squares.
SmallMask(m) == count(m) <= 30
Total(m) == 2 ^ count(m)

\* C12: the items yielded so far start with the empty set, are subsets of the
\* mask and are pairwise different; None is returned only when all 2^count
\* subsets have been yielded, exactly then the iterator is done, every subset
\* of the mask has then been yielded, and every later call returns None too.
C12_PowerSetEnumerates ==
    LET m == query.board
        items == last.items
        n == Len(items)
    IN  /\ n >= 1 => items[1] = EMPTY
        /\ \A i \in 1 .. n : items[i] \subseteq m
        /\ \A i \in 1 .. n : \A j \in (i + 1) .. n : items[i] /= items[j]
        /\ SmallMask(m) => (iter.done <=> n = Total(m))
        /\ ~SmallMask(m) => ~iter.done
        /\ iter.done => {items[i] : i \in 1 .. n} = SUBSET m
        /\ last.nones >= 1 => iter.done
        /\ (last.op = "next" /\ iter.done /\ last.nones = 0) => result = Some(items[n])
        /\ (last.op = "next" /\ last.nones >= 1) => result = None
        /\ (last.op = "next" /\ ~iter.done) => result = Some(items[n])

\* C12: a mask of three squares, bit 63 among them, has yielded its eight
\* subsets and then None twice; and the empty mask has yielded the empty set
\* alone.
C12_Witness ==
    /\ last.op = "next"
    /\ query.board = {A1, D5, H8}
    /\ Len(last.items) = 8
    /\ last.items[1] = EMPTY
    /\ last.items[8] = {A1, D5, H8}
    /\ last.nones = 2
    /\ result = None

\* The number of subsets the iterator will still yield, as a usize; no usize
\* holds the 2^64 subsets of the full board.
Remaining ==
    LET m == query.board
        n == Len(last.items)
    IN  IF iter.done THEN Some(WordOf(0))
        ELSE IF SmallMask(m) THEN Some(WordOf(Total(m) - n))
        ELSE IF n = 0 THEN None
        ELSE Some(wrapping_sub(ZeroWord, WordOf(n)))

\* C13: size_hint() returns (n, Some(n)), n being the number of subsets the
\* iterator will still yield, whenever it is called.
C13_SizeHintExact ==
    last.op \in {"size_hint", "abort"} =>
        /\ ~result.aborted
        /\ IsSome(Remaining)
        /\ result.value = <<Unwrap(Remaining), Some(Unwrap(Remaining))>>

\* C13: size_hint() was called after the first of the two subsets of a mask
\* of one square had been yielded, and returned (2, Some(2)).
C13_Witness ==
    /\ last.op = "size_hint"
    /\ query.board = {A1}
    /\ Len(last.items) = 1
    /\ ~iter.done
    /\ result.value = <<WordOf(2), Some(WordOf(2))>>

\* What size_hint() does return: the number of subsets of the mask, however
\* many have been yielded, as long as the mask is not the full board.
SizeHintIsTotal ==
    (last.op = "size_hint" /\ SmallMask(query.board)) =>
        result.value = <<WordOf(Total(query.board)), Some(WordOf(Total(query.board)))>>

(***************************************************************************)
(* BitboardIterator (board/bitboard/iterator.rs): the word of the squares  *)
(* not yet yielded.                                                        *)
(***************************************************************************)
\* u64::trailing_zeros
trailing_zeros(w) ==
    IF w = ZeroWord THEN 64 ELSE Min({s \in Squares : TestBit(w, s)})
\* u64::count_ones
count_ones(w) == Cardinality({s \in Squares : TestBit(w, s)})
\* w ^ (1 << n)
XorBit(w, n) ==
    [w EXCEPT ![(n \div 8) + 1] = IF TestBit(w, n) THEN @ - 2 ^ (n % 8) ELSE @ + 2 ^ (n % 8)]
\* Square::from_index
from_index(index) == index

BitboardIteratorNew(b) == ToWord(b)

\* A faulty next(): the highest square is taken instead of the lowest.
BitboardIteratorNextHighest(it) ==
    IF it = ZeroWord THEN [item |-> None, iter |-> it]
    ELSE LET msb == CHOOSE s \in Squares :
                        TestBit(it, s) /\ \A t \in Squares : TestBit(it, t) => t <= s
         IN  [item |-> Some(from_index(msb)), iter |-> XorBit(it, msb)]

\* next(): the item returned and the iterator afterwards.
BitboardIteratorNext(it) ==
    IF it = ZeroWord THEN [item |-> None, iter |-> it]
    ELSE LET lsb == trailing_zeros(it)
         IN  [item |-> Some(from_index(lsb)), iter |-> XorBit(it, lsb)]

BitboardIteratorSizeHint(it) ==
    LET size == count_ones(it)
    IN  <<size, Some(size)>>

\* The boards iterated over.
IterBoards ==
    BoardsUpTo(MaxMembers) \cup {RANKS[r] : r \in 0 .. 7} \cup {FILES[f] : f \in 0 .. 7}
        \cup {ALL, ALL \ {A1}, ALL \ {H8}}

\* board.into_iter()
InitIter ==
    /\ query \in {[board |-> b] : b \in IterBoards}
    /\ iter = BitboardIteratorNew(query.board)
    /\ last = [op |-> "new", items |-> <<>>, nones |-> 0]
    /\ result = NoResult
    /\ overflow_checks = TRUE
    /\ board = ChessBoardDefault
    /\ history = <<>>
    /\ builder = NoBuilder
    /\ magic_moves = NoMagicMoves
    /\ hash = NoHash

\* iterator.next()
BitboardNextCall ==
    /\ last.nones < MaxNones
    /\ LET r == BitboardIteratorNext(iter)
       IN  /\ iter' = r.iter
           /\ result' = r.item
           /\ last' = [op |-> "next",
                       items |-> IF IsSome(r.item)
                                 THEN Append(last.items, Unwrap(r.item))
                                 ELSE last.items,
                       nones |-> IF IsSome(r.item) THEN last.nones ELSE last.nones + 1]
    /\ UNCHANGED <<board, history, builder, query, overflow_checks, magic_moves, hash>>

\* iterator.size_hint()
BitboardSizeHint ==
    /\ last.op /= "size_hint"
    /\ result' = BitboardIteratorSizeHint(iter)
    /\ last' = [last EXCEPT !.op = "size_hint"]
    /\ UNCHANGED <<board, history, builder, query, overflow_checks, magic_moves, hash,
                   iter>>

NextIter == BitboardNextCall \/ BitboardSizeHint

SpecIter == InitIter /\ [][NextIter]_vars

\* C14: the squares yielded so far are squares of the board, in strictly
\* ascending index, and are the lowest ones of the board; None is returned
\* exactly when count(b) squares were yielded, all squares of the board have
\* then been yielded, and every later call returns None; size_hint returns
\* the number of squares not yet yielded, at every step.
C14_IterAscending ==
    LET b == query.board
        items == last.items
        n == Len(items)
    IN  /\ \A i \in 1 .. n : items[i] \in b
        /\ \A i \in 1 .. (n - 1) : items[i] < items[i + 1]
        /\ \A s \in b : (\E i \in 1 .. n : items[i] = s) \/ (n >= 1 => s > items[n])
        /\ n <= count(b)
        /\ last.nones >= 1 => {items[i] : i \in 1 .. n} = b /\ n = count(b)
        /\ last.op = "next" => (result = None <=> last.nones >= 1)
        /\ (last.op = "next" /\ last.nones = 0) => result = Some(items[n])
        /\ (n = count(b) /\ last.op = "next" /\ last.nones = 0) =>
                BitboardIteratorNext(iter).item = None
        /\ last.op = "size_hint" => result = <<count(b) - n, Some(count(b) - n)>>

\* C14: the first rank was iterated to its end: A1, B1, ... H1 in this order,
\* then None twice.
C14_Witness ==
    /\ last.op = "next"
    /\ query.board = RANKS[RankFirst]
    /\ last.items = <<0, 8, 16, 24, 32, 40, 48, 56>>
    /\ last.nones = 2
    /\ result = None

(***************************************************************************)
(* Calls of the pure functions of the board primitives: the arguments are  *)
(* in query, the value returned in result; nothing else is at work.        *)
(***************************************************************************)
Idle ==
    /\ board = ChessBoardDefault
    /\ history = <<>>
    /\ builder = NoBuilder
    /\ overflow_checks = TRUE
    /\ magic_moves = NoMagicMoves
    /\ hash = NoHash
    /\ iter = NoIter

InitTryInto ==
    /\ Idle
    /\ query \in {[board |-> b] : b \in IterBoards} \cup {[square |-> s] : s \in Squares}
    /\ result = NoResult
    /\ last = [op |-> "new"]

\* TryInto::<Square>::try_into(board)
TryIntoSquare ==
    /\ last.op = "new"
    /\ "board" \in DOMAIN query
    /\ result' = try_into_square(query.board)
    /\ last' = [op |-> "try_into"]
    /\ UNCHANGED <<board, history, builder, query, overflow_checks, magic_moves, hash, iter>>

\* square.into_bitboard().try_into()
IntoBitboardTryInto ==
    /\ last.op = "new"
    /\ "square" \in DOMAIN query
    /\ result' = try_into_square(into_bitboard(query.square))
    /\ last' = [op |-> "round_trip"]
    /\ UNCHANGED <<board, history, builder, query, overflow_checks, magic_moves, hash, iter>>

NextTryInto == TryIntoSquare \/ IntoBitboardTryInto

SpecTryInto == InitTryInto /\ [][NextTryInto]_vars

SlideDirections ==
    {ROOK_DIRECTIONS[i] : i \in 1 .. Len(ROOK_DIRECTIONS)}
        \cup {BISHOP_DIRECTIONS[i] : i \in 1 .. Len(BISHOP_DIRECTIONS)}

\* The squares k steps of d away from s, for the steps that stay on the board.
OnBoard(s, d, k) ==
    /\ file_index(s) + k * Offset(d)[1] \in 0 .. 7
    /\ rank_index(s) + k * Offset(d)[2] \in 0 .. 7
StepSquare(s, d, k) ==
    SquareNew(file_index(s) + k * Offset(d)[1], rank_index(s) + k * Offset(d)[2])
RayLength(s, d) == Cardinality({k \in 1 .. 7 : OnBoard(s, d, k)})
RaySquares(s, d) == {StepSquare(s, d, k) : k \in 1 .. RayLength(s, d)}

\* The blockers tried for a ray: every set of squares of the ray, alone, with
\* the square slid from, and with every square off the ray; and a few fixed
\* boards.
SlideBlockers(s, d) ==
    {onray \cup off : onray \in SUBSET RaySquares(s, d),
                      off \in {EMPTY, {s}, ALL \ RaySquares(s, d)}}
        \cup QueryBlockers

InitSlide ==
    /\ Idle
    /\ query \in UNION {{[square |-> s, direction |-> d, blockers |-> bl] :
                            bl \in SlideBlockers(s, d)} :
                        s \in Squares, d \in SlideDirections}
    /\ result = NoResult
    /\ last = [op |-> "new"]

\* direction.slide_board_with_blockers(square.into_bitboard(), blockers)
Slide ==
    /\ last.op = "new"
    /\ result' = slide_board_with_blockers(query.direction, into_bitboard(query.square),
                                           query.blockers)
    /\ last' = [op |-> "slide"]
    /\ UNCHANGED <<board, history, builder, query, overflow_checks, magic_moves, hash, iter>>

NextSlide == Slide

SpecSlide == InitSlide /\ [][NextSlide]_vars

\* The number of steps a slide makes: up to the first blocker of the ray, or
\* to the edge.
SlideStop(s, d, blockers) ==
    Min({k \in 1 .. RayLength(s, d) : StepSquare(s, d, k) \in blockers}
            \cup {RayLength(s, d)})

\* C16: the slide of a single square s along a rook or bishop direction is
\* the squares s+d, s+2d, ... up to and including the first one that is a
\* blocker, or up to the edge of the board when none is; s itself is not in
\* it, and it is the same with s among the blockers and without.
C16_SlideStopsOnBlocker ==
    last.op = "slide" =>
        LET s == query.square
            d == query.direction
        IN  /\ result = {StepSquare(s, d, k) : k \in 1 .. SlideStop(s, d, query.blockers)}
            /\ s \notin result
            /\ result = slide_board_with_blockers(d, {s}, query.blockers \cup {s})
            /\ result = slide_board_with_blockers(d, {s}, query.blockers \ {s})

\* C16: a slide from A1 to the north with blockers on A4 and A6 stopped on
\* A4, the blocker included.
C16_Witness ==
    /\ last.op = "slide"
    /\ query.square = A1
    /\ query.direction = "North"
    /\ query.blockers = {A1, A4, A6}
    /\ result = {A2, A3, A4}

(***************************************************************************)
(* The rank of the en-passant square, checked under Spec.                  *)
(***************************************************************************)
\* C17 as stated: whenever en_passant is set, the square lies on the third
\* rank of the side to move (rank 3 with White to move, rank 6 with Black to
\* move).
C17_RankOfSideToMove ==
    IsSome(board.en_passant) =>
        rank_index(Unwrap(board.en_passant)) = third_rank(current_player(board))

\* C17, amended: whenever en_passant is set, in the positions a game starts
\* from (all accepted by validate) and in those reached by plays, the square
\* lies on the third rank of the side that is not to move (rank 6 with White
\* to move, rank 3 with Black to move); and the en-passant block of validate,
\* which every accepted position passes, lets the position through with its
\* en-passant square replaced by s only for squares s of that rank.
C17_RankOfOpponent ==
    /\ IsSome(board.en_passant) =>
        rank_index(Unwrap(board.en_passant)) = third_rank(Opposite(current_player(board)))
    /\ \A s \in Squares :
        validate_en_passant([board EXCEPT !.en_passant = Some(s)]) = None =>
            rank_index(s) = third_rank(Opposite(current_player(board)))

\* C17: E2-E4 was played from the starting position: Black is to move and the
\* en-passant square is E3, which validate accepts.
C17_Witness ==
    /\ last.op = "play"
    /\ last.before = ChessBoardDefault
    /\ last.move = Move(E2, E4, None)
    /\ board.en_passant = Some(E3)
    /\ current_player(board) = "Black"
    /\ is_valid(board)

(***************************************************************************)
(* What a play leaves alone, checked under Spec.                           *)
(***************************************************************************)
\* The piece and color standing on a square, None when it is empty.
Standing(b, sq) ==
    [pieces |-> {p \in Pieces : sq \in b.piece_occupancy[p]},
     colors |-> {c \in Colors : sq \in b.color_occupancy[c]},
     combined |-> sq \in b.combined_occupancy]

\* A king leaving the E file square of its first rank for the G or C file.
IsKingLeap(b, m) ==
    /\ m.start \in b.piece_occupancy["King"]
    /\ file_index(m.start) = FileE
    /\ file_index(m.destination) \in {FileC, FileG}
    /\ rank_index(m.start) = rank_index(m.destination)
\* A pawn stepping diagonally onto the empty en-passant target.
IsEnPassantStep(b, m) ==
    /\ m.start \in b.piece_occupancy["Pawn"]
    /\ b.en_passant = Some(m.destination)
    /\ file_index(m.start) /= file_index(m.destination)
    /\ m.destination \notin b.combined_occupancy

\* C18: after every play, each square other than the start and destination of
\* the move holds what it held before; so after a king's leap of two files
\* the rook still stands on its corner, and after a pawn's diagonal step onto
\* the en-passant target the pawn that double-stepped still stands beside the
\* start square and the delta records no captured piece.
C18_OnlyStartAndDestination ==
    last.op = "play" =>
        LET b == last.before
            m == last.move
        IN  /\ \A sq \in Squares \ {m.start, m.destination} :
                    Standing(board, sq) = Standing(b, sq)
            /\ IsKingLeap(b, m) =>
                    \A corner \in {SquareNew(FileA, rank_index(m.start)),
                                   SquareNew(FileH, rank_index(m.start))} :
                        Standing(board, corner) = Standing(b, corner)
            /\ IsEnPassantStep(b, m) =>
                    LET pawn == SquareNew(file_index(m.destination), rank_index(m.start))
                    IN  /\ pawn \in occupancy(b, "Pawn", Opposite(current_player(b)))
                        /\ pawn \in occupancy(board, "Pawn", Opposite(current_player(b)))
                        /\ last.state.captured_piece = None

\* C18: the white pawn on E5 stepped onto the en-passant target D6; the
\* black pawn on D5 is still there and nothing was captured.
C18_Witness ==
    /\ last.op = "play"
    /\ last.move = Move(E5, D6, None)
    /\ IsEnPassantStep(last.before, last.move)
    /\ D5 \in occupancy(board, "Pawn", "Black")
    /\ D6 \in occupancy(board, "Pawn", "White")
    /\ last.state.captured_piece = None

(***************************************************************************)
(* Pawn attacks looked at from both ends.                                  *)
(***************************************************************************)
InitPawn ==
    /\ Idle
    /\ query \in {[color |-> c, a |-> a, b |-> b] : c \in Colors, a \in Squares, b \in Squares}
    /\ result = NoResult
    /\ last = [op |-> "new"]

\* pawn_attacks(color, a) & b, and pawn_attacks(!color, b) & a
PawnAttacks ==
    /\ last.op = "new"
    /\ result' = [forward |-> query.b \in pawn_attacks(query.color, query.a),
                  backward |-> query.a \in pawn_attacks(Opposite(query.color), query.b)]
    /\ last' = [op |-> "pawn_attacks"]
    /\ UNCHANGED <<board, history, builder, query, overflow_checks, magic_moves, hash, iter>>

NextPawn == PawnAttacks

SpecPawn == InitPawn /\ [][NextPawn]_vars

\* C19: for every color c and all squares a and b, on any rank, b is in
\* pawn_attacks(c, a) if and only if a is in pawn_attacks(opposite of c, b).
C19_PawnAttacksSymmetric ==
    last.op = "pawn_attacks" => (result.forward <=> result.backward)

\* C19: the white pawn on D7 attacks E8, and a black pawn on E8 is given no
\* attacks at all.
C19_Witness ==
    /\ last.op = "pawn_attacks"
    /\ query = [color |-> "White", a |-> D7, b |-> E8]
    /\ result = [forward |-> TRUE, backward |-> FALSE]
    /\ pawn_attacks("Black", E8) = EMPTY

\* The ranks pawns stand on in a game.
InnerRank(s) == rank_index(s) \notin {RankFirst, RankEighth}

\* What does hold: the attacks are symmetric between squares that are both
\* off the first and the eighth rank, and a disagreement is always an attack
\* onto one of these two ranks that the other end does not return.
PawnAttacksSymmetricInside ==
    last.op = "pawn_attacks" =>
        /\ (InnerRank(query.a) /\ InnerRank(query.b)) =>
                (result.forward <=> result.backward)
        /\ (result.forward /= result.backward) =>
                /\ InnerRank(query.a) /= InnerRank(query.b)
                /\ InnerRank(query.a) <=> result.forward

(***************************************************************************)
(* Relevance masks against the naive sliders.                              *)
(***************************************************************************)
\* Blockers on the rays of a slider taken together.
MaxBlockers == 2

\* The blocker sets tried for a slider on sq whose rays on an empty board are
\* rays: up to MaxBlockers squares of the rays, alone and with every square
\* off the rays, the fixed boards and the full board.
MaskBlockers(rays) ==
    LET few == {bl \in SUBSET rays : Cardinality(bl) <= MaxBlockers}
    IN  few \cup {bl \cup (ALL \ rays) : bl \in {x \in few : Cardinality(x) <= 1}}
            \cup QueryBlockers \cup {ALL, rays}

InitMask ==
    /\ Idle
    /\ query \in
        UNION {{[kind |-> "bishop", square |-> s, blockers |-> bl] :
                    bl \in MaskBlockers(naive_bishop_moves(s, EMPTY))}
                \cup {[kind |-> "rook", square |-> s, blockers |-> bl] :
                    bl \in MaskBlockers(naive_rook_moves(s, EMPTY))} : s \in Squares}
    /\ result = NoResult
    /\ last = [op |-> "new"]

\* naive::bishop_moves(square, blockers) and
\* naive::bishop_moves(square, blockers & generate_bishop_mask(square))
MaskedBishop ==
    /\ last.op = "new"
    /\ query.kind = "bishop"
    /\ result' = [full |-> naive_bishop_moves(query.square, query.blockers),
                  masked |-> naive_bishop_moves(query.square,
                                query.blockers \cap generate_bishop_mask(query.square)),
                  mask |-> generate_bishop_mask(query.square)]
    /\ last' = [op |-> "masked"]
    /\ UNCHANGED <<board, history, builder, query, overflow_checks, magic_moves, hash, iter>>

\* naive::rook_moves(square, blockers) and
\* naive::rook_moves(square, blockers & generate_rook_mask(square))
MaskedRook ==
    /\ last.op = "new"
    /\ query.kind = "rook"
    /\ result' = [full |-> naive_rook_moves(query.square, query.blockers),
                  masked |-> naive_rook_moves(query.square,
                                query.blockers \cap generate_rook_mask(query.square)),
                  mask |-> generate_rook_mask(query.square)]
    /\ last' = [op |-> "masked"]
    /\ UNCHANGED <<board, history, builder, query, overflow_checks, magic_moves, hash, iter>>

NextMask == MaskedBishop \/ MaskedRook

SpecMask == InitMask /\ [][NextMask]_vars

\* C20: for every square and every blocker set, the naive bishop attacks with
\* the blockers equal the naive bishop attacks with the blockers cut down to
\* generate_bishop_mask(square), and the naive rook attacks with the blockers
\* equal those with the blockers cut down to generate_rook_mask(square).
C20_MaskKeepsAttacks ==
    last.op = "masked" => result.full = result.masked

\* C20: a rook on A1 with blockers on A4 and on the far corner A8: the mask
\* drops A8, and the attacks are the same, stopped on A4 and running to H1.
C20_Witness ==
    /\ last.op = "masked"
    /\ query = [kind |-> "rook", square |-> A1, blockers |-> {A4, A8}]
    /\ query.blockers \cap result.mask = {A4}
    /\ result.full = {A2, A3, A4} \cup (RANKS[RankFirst] \ {A1})
    /\ result.masked = result.full

(***************************************************************************)
(* generate_magics fed with candidates that are refused: the generator is  *)
(* a PreRolledRng whose 64 numbers are the seeds of the kind with other    *)
(* candidates put in front of the seeds of the first squares.              *)
(***************************************************************************)
\* Squares generated in one run.
MaxGenerated == 2
\* Candidates put in front of the seeds in one run.
MaxRetries == 2

SeedOf(kind) == IF kind = "Bishop" THEN BISHOP_SEED ELSE ROOK_SEED

\* 9233368803587788832: a multiplier that sends several subsets of the mask
\* of a bishop on A2 to one index, all of them with the same attacks.
SharingCandidate == <<32, 16, 6, 162, 1, 132, 35, 128>>

\* The candidates put in front: the multiplier 0, which sends every subset to
\* index 0; the multiplier above; the seed of the third square.
OtherCandidates(kind) == {ZeroWord, SharingCandidate, SeedOf(kind)[3]}

\* The sequences of at most n candidates.
RECURSIVE CandidateSeqs(_, _)
CandidateSeqs(kind, n) ==
    IF n = 0 THEN {<<>>}
    ELSE LET shorter == CandidateSeqs(kind, n - 1)
         IN  shorter \cup {Append(s, c) : s \in shorter, c \in OtherCandidates(kind)}

\* The numbers of a run: in front of the seed of each of the first squares the
\* candidates of fronts, then the other seeds, 64 numbers in all.
RECURSIVE Interleave(_, _, _)
Interleave(kind, fronts, sq) ==
    IF sq > Len(fronts) THEN SubSeq(SeedOf(kind), sq, Len(SeedOf(kind)))
    ELSE fronts[sq] \o <<SeedOf(kind)[sq]>> \o Interleave(kind, fronts, sq + 1)
RECURSIVE TotalLen(_, _)
TotalLen(fronts, i) == IF i = 0 THEN 0 ELSE Len(fronts[i]) + TotalLen(fronts, i - 1)
RetryNumbers(kind) ==
    {SubSeq(Interleave(kind, fronts, 1), 1, Cardinality(Squares)) :
        fronts \in {f \in [1 .. MaxGenerated -> CandidateSeqs(kind, MaxRetries)] :
                        TotalLen(f, MaxGenerated) <= MaxRetries}}

InitRetry ==
    /\ query \in UNION {{[kind |-> kind, numbers |-> numbers] :
                            numbers \in RetryNumbers(kind)} : kind \in Kinds}
    /\ magic_moves = [kind \in Kinds |->
                        generate_magics_new(PreRolledRngNew(
                            IF kind = query.kind THEN query.numbers ELSE SeedOf(kind)))]
    /\ last = [op |-> "new"]
    /\ result = NoResult
    /\ board = ChessBoardDefault
    /\ history = <<>>
    /\ builder = NoBuilder
    /\ overflow_checks = TRUE
    /\ hash = NoHash
    /\ iter = NoIter

\* One iteration of the loop of generate_magics over the squares; first is the
\* place in the numbers of the first candidate it draws.
GenerateRetrying(kind) ==
    /\ query.kind = kind
    /\ Len(magic_moves[kind].magics) < MaxGenerated
    /\ ~magic_moves[kind].panicked
    /\ magic_moves' = [magic_moves EXCEPT ![kind] = generate_magics_square(kind, @)]
    /\ last' = [op |-> "generate", kind |-> kind, square |-> Len(magic_moves[kind].magics),
                first |-> (magic_moves[kind].rng.current_index \div 3) + 1]
    /\ UNCHANGED <<board, history, builder, query, result, overflow_checks, hash, iter>>

GenerateBishopRetrying == GenerateRetrying("Bishop")
GenerateRookRetrying == GenerateRetrying("Rook")

NextRetry == GenerateBishopRetrying \/ GenerateRookRetrying

SpecRetry == InitRetry /\ [][NextRetry]_vars

\* The index a multiplier gives a subset of a mask, and whether two subsets of
\* the mask of a square with different attacks get the same index.
CandidateIndex(mask, multiplier, occ) ==
    get_index([magic |-> multiplier, offset |-> 0, mask |-> mask,
               shift |-> 64 - count(mask)], occ)
CandidateIndexes(mask, multiplier, occs) ==
    Collect([i \in 1 .. Len(occs) |-> CandidateIndex(mask, multiplier, occs[i])], Len(occs))
Contradicts(kind, sq, multiplier) ==
    Let(mask_fn(kind, sq), LAMBDA mask :
    Let(iter_power_set(mask), LAMBDA occs :
    Let(CandidateIndexes(mask, multiplier, occs), LAMBDA index :
    Let(Collect([i \in 1 .. Len(occs) |-> moves_fn(kind, sq, occs[i])], Len(occs)),
        LAMBDA moves :
            \E i \in 1 .. Len(occs) : \E j \in 1 .. (i - 1) :
                index[i] = index[j] /\ moves[i] /= moves[j]))))
\* Whether two subsets get the same index at all.
Shares(kind, sq, multiplier) ==
    Let(mask_fn(kind, sq), LAMBDA mask :
    Let(iter_power_set(mask), LAMBDA occs :
    Let(CandidateIndexes(mask, multiplier, occs), LAMBDA index :
            \E i \in 1 .. Len(occs) : \E j \in 1 .. (i - 1) : index[i] = index[j])))

\* The candidates the last iteration drew, the accepted one last.
Drawn ==
    SubSeq(query.numbers, last.first, magic_moves[last.kind].rng.current_index \div 3)

\* C21: when the table of a square has been generated, every candidate drawn
\* before the accepted one sends two subsets of the mask with different
\* attacks to one index; the accepted one is the multiplier recorded, its
\* offset the length of the table before; for every subset of the mask the
\* slot at the index of the subset holds the naive attacks of the subset, so
\* that two subsets with one index have the same attacks (checked pair by
\* pair for the bishops).
C21_AcceptedWithoutContradiction ==
    (last.op = "generate" /\ ~magic_moves[last.kind].panicked) =>
        LET kind == last.kind
            sq == last.square
            tables == magic_moves[kind]
            accepted == tables.magics[sq + 1]
        IN  /\ Len(Drawn) >= 1
            /\ accepted.magic = Drawn[Len(Drawn)]
            /\ \A i \in 1 .. (Len(Drawn) - 1) : Contradicts(kind, sq, Drawn[i])
            /\ kind = "Bishop" => ~Contradicts(kind, sq, accepted.magic)
            /\ accepted.mask = mask_fn(kind, sq)
            /\ \A occ \in SUBSET accepted.mask :
                \A index \in {CandidateIndex(accepted.mask, accepted.magic, occ)} :
                    /\ get_index(accepted, occ) = accepted.offset + index
                    /\ tables.moves[accepted.offset + index + 1] = moves_fn(kind, sq, occ)

\* C21: for the bishop on A2 the multiplier 0 was drawn and refused, then the
\* multiplier that sends subsets with equal attacks to one index was drawn
\* and accepted, the seed of the square never being drawn.
C21_Witness ==
    /\ last.op = "generate"
    /\ last.kind = "Bishop"
    /\ last.square = A2
    /\ ~magic_moves.Bishop.panicked
    /\ Drawn = <<ZeroWord, SharingCandidate>>
    /\ Contradicts("Bishop", A2, ZeroWord)
    /\ Shares("Bishop", A2, SharingCandidate)
    /\ magic_moves.Bishop.magics[A2 + 1].magic = SharingCandidate

(***************************************************************************)
(* The colors of the squares (board/bitboard/mod.rs).                      *)
(***************************************************************************)
\* Bitboard(0x55AA55AA55AA55AA)
LIGHT_SQUARES == FromWord(<<170, 85, 170, 85, 170, 85, 170, 85>>)
\* Bitboard(0x55AA55AA55AA55AA)
DARK_SQUARES == FromWord(<<170, 85, 170, 85, 170, 85, 170, 85>>)

InitColors ==
    /\ Idle
    /\ query \in {[square |-> s] : s \in Squares}
    /\ result = NoResult
    /\ last = [op |-> "new"]

\* !(Bitboard::LIGHT_SQUARES & square).is_empty(), and the same of DARK_SQUARES
SquareColors ==
    /\ last.op = "new"
    /\ result' = [light |-> (LIGHT_SQUARES \cap into_bitboard(query.square)) /= EMPTY,
                  dark |-> (DARK_SQUARES \cap into_bitboard(query.square)) /= EMPTY]
    /\ last' = [op |-> "colors"]
    /\ UNCHANGED <<board, history, builder, query, overflow_checks, magic_moves, hash, iter>>

NextColors == SquareColors

SpecColors == InitColors /\ [][NextColors]_vars

\* C22: every square is in exactly one of LIGHT_SQUARES and DARK_SQUARES (the
\* two are disjoint and their union is ALL), H1 is in LIGHT_SQUARES and A1 in
\* DARK_SQUARES.
C22_ColorsPartition ==
    last.op = "colors" =>
        /\ result.light /= result.dark
        /\ query.square = H1 => result.light
        /\ query.square = A1 => result.dark
        /\ (LIGHT_SQUARES \cap DARK_SQUARES) = EMPTY
        /\ (LIGHT_SQUARES \cup DARK_SQUARES) = ALL

\* C22: A1 was looked up and is in neither constant.
C22_Witness ==
    /\ last.op = "colors"
    /\ query.square = A1
    /\ result = [light |-> FALSE, dark |-> FALSE]

\* What does hold: the two constants are the same board, the squares whose
\* file and rank indices have an odd sum, H1 among them.
ColorsAreBothLight ==
    /\ LIGHT_SQUARES = DARK_SQUARES
    /\ LIGHT_SQUARES = {s \in Squares : (file_index(s) + rank_index(s)) % 2 = 1}
    /\ H1 \in LIGHT_SQUARES
    /\ last.op = "colors" => result.light = result.dark

(***************************************************************************)
(* Plays of any move that starts on a piece of the side to move and ends   *)
(* on an empty square or on an opponent piece other than the king, whether *)
(* the piece can make the move or not.                                     *)
(***************************************************************************)
\* The positions the plays start from.
AnyBoards ==
    {try_from(bld, TRUE).board : bld \in {CastlingBuilder, EnPassantBuilder, PromotionBuilder}}

\* Every such move: any destination, any promotion.
AnyMoves(b) ==
    LET side == current_player(b)
        ends == (ALL \ b.color_occupancy[side]) \ occupancy(b, "King", Opposite(side))
    IN  {Move(m[1], m[2], m[3]) :
            m \in b.color_occupancy[side] \X ends \X ({None} \cup {Some(p) : p \in Pieces})}

\* The corners and the squares the kings start on.
HomeSquares == {A1, E1, H1, A8, E8, H8}
\* The moves among them kept on playing: to the squares the piece can reach
\* and to the corners and king squares, with no promotion or one to a rook.
IsHomeMove(b, m) ==
    /\ m.destination \in destinations(b, m.start) \cup HomeSquares
    /\ m.promotion \in {None, Some("Rook")}
HomeMoves(b) == {m \in AnyMoves(b) : IsHomeMove(b, m)}

InitAnyMove ==
    /\ board \in AnyBoards
    /\ overflow_checks = TRUE
    /\ magic_moves = NoMagicMoves
    /\ hash = NoHash
    /\ iter = NoIter
    /\ history = <<>>
    /\ last = [op |-> "new", move |-> NoMove, before |-> board, state |-> NoState]
    /\ builder = NoBuilder
    /\ query = NoQuery
    /\ result = NoResult

\* No unplay has left the position other than the plays made it.
AsPlayed ==
    IF history = <<>> THEN board \in AnyBoards ELSE board = history[Len(history)].after

\* position.play_move_inplace(m) for a move of moves
PlayOf(moves) ==
    /\ last.op /= "abort"
    /\ AsPlayed
    /\ \E m \in moves :
        LET r == play_move_inplace(board, m, overflow_checks)
        IN  IF r.aborted
            THEN /\ last' = [op |-> "abort", move |-> m, before |-> board, state |-> r.state]
                 /\ UNCHANGED <<board, history>>
            ELSE /\ board' = r.board
                 /\ history' = Append(history, [move |-> m, state |-> r.state,
                                                before |-> board, after |-> r.board])
                 /\ last' = [op |-> "play", move |-> m, before |-> board,
                             state |-> r.state]
    /\ UNCHANGED <<builder, query, result, overflow_checks, magic_moves, hash, iter>>

\* Any move played on the starting position.
PlayAny ==
    /\ history = <<>>
    /\ PlayOf(AnyMoves(board))

\* A move to a reachable square, a corner or a king square played after moves
\* of the same kind.
PlayHome ==
    /\ Len(history) < MaxDepth
    /\ \A i \in 1 .. Len(history) : IsHomeMove(history[i].before, history[i].move)
    /\ PlayOf(HomeMoves(board))

NextAnyMove == PlayAny \/ PlayHome \/ Unplay

SpecAnyMove == InitAnyMove /\ [][NextAnyMove]_vars

\* Invariants 1 and 2 of a position: the piece boards are pairwise disjoint,
\* the color boards are disjoint, combined is the union of the piece boards
\* and the union of the color boards.
OccupancyConsistent(b) ==
    /\ \A p, q \in Pieces : p /= q => (b.piece_occupancy[p] \cap b.piece_occupancy[q]) = EMPTY
    /\ (b.color_occupancy["White"] \cap b.color_occupancy["Black"]) = EMPTY
    /\ b.combined_occupancy = UNION {b.piece_occupancy[p] : p \in Pieces}
    /\ b.combined_occupancy = b.color_occupancy["White"] \cup b.color_occupancy["Black"]

\* C23: the position is consistent at the start, after every play of a move
\* that starts on a piece of the side to move and ends on an empty square or
\* on an opponent piece other than the king, with or without promotion, and
\* after every matching unplay.
C23_OccupancyKept ==
    /\ OccupancyConsistent(board)
    /\ last.op = "play" =>
        /\ OccupancyConsistent(last.before)
        /\ last.move.start \in last.before.color_occupancy[current_player(last.before)]
        /\ last.move.destination \notin last.before.color_occupancy[current_player(last.before)]
        /\ last.move.destination \notin last.before.piece_occupancy["King"]

\* C23: a move no piece can make was played, the rook on A1 taking the rook
\* on H8 and turning into a queen; the position is consistent.
C23_Witness ==
    /\ last.op = "play"
    /\ last.move = Move(A1, H8, Some("Queen"))
    /\ last.state.captured_piece = Some("Rook")
    /\ H8 \in occupancy(board, "Queen", "White")
    /\ H8 \notin board.piece_occupancy["Rook"]
    /\ A1 \notin board.combined_occupancy
    /\ OccupancyConsistent(board)

\* Invariant 6 of a position: a color with castling rights has its king on the
\* E file of its back rank and a rook of its own on the corner of each side
\* it may castle on.
CastlingConsistent(b) ==
    \A c \in Colors :
        LET rights == b.castle_rights[c]
            rank == first_rank(c)
        IN  /\ rights /= NoSide => SquareNew(FileE, rank) \in occupancy(b, "King", c)
            /\ rights \in {KingSide, BothSides} =>
                    SquareNew(FileH, rank) \in occupancy(b, "Rook", c)
            /\ rights \in {QueenSide, BothSides} =>
                    SquareNew(FileA, rank) \in occupancy(b, "Rook", c)

\* C24: from a position that passes validate(), after any sequence of plays of
\* such moves every color with castling rights still has its king on the E
\* file of its back rank and its rooks on the corners the rights demand.
C24_CastlingKept ==
    /\ last.op = "new" => is_valid(board) /\ CastlingConsistent(board)
    /\ last.op = "play" => CastlingConsistent(board)

\* C24: two plays were made, a pawn's step and then a move no piece can make,
\* the black pawn on D5 landing on A8 as a rook; White keeps both rights with
\* its king and rooks at home, and Black, with a rook on its corner, has none.
C24_Witness ==
    /\ last.op = "play"
    /\ Len(history) = 2
    /\ history[1].move = Move(E5, E6, None)
    /\ history[2].move = Move(D5, A8, Some("Rook"))
    /\ A8 \in occupancy(board, "Rook", "Black")
    /\ board.castle_rights = [White |-> BothSides, Black |-> NoSide]
    /\ CastlingConsistent(board)

(***************************************************************************)
(* The counters and the castling rights over plays and unplays, checked    *)
(* under Spec.                                                             *)
(***************************************************************************)
\* The position the plays and unplays started from.
InitialBoard ==
    IF history /= <<>> THEN history[1].before
    ELSE IF last.op = "new" THEN board ELSE last.before

\* Invariants 9 and 10 of a position.
CountersCoherent(b) ==
    /\ WParity(b.total_plies) = ColorIndex(b.side)
    /\ WLe(b.half_move_clock, b.total_plies)

\* C25: the position the game starts from has total_plies mod 2 = side index
\* and half_move_clock <= total_plies; no play or unplay aborts, every
\* position reached by plays and matching unplays satisfies both relations,
\* and total_plies is never below its value at the start.
C25_CountersCoherent ==
    /\ CountersCoherent(InitialBoard)
    /\ last.op /= "abort"
    /\ CountersCoherent(board)
    /\ WLe(InitialBoard.total_plies, board.total_plies)

\* C25: in a build without overflow checks a play was made on the position
\* whose ply counter is at the last value of a u32: the counter is back at 0,
\* below the half-move clock and below its value at the start.
C25_Witness ==
    /\ last.op = "play"
    /\ ~overflow_checks
    /\ last.before.total_plies = U32MAX
    /\ CountersCoherent(last.before)
    /\ board.total_plies = W(0)
    /\ board.half_move_clock = W(8)
    /\ ~WLe(board.half_move_clock, board.total_plies)
    /\ ~WLe(InitialBoard.total_plies, board.total_plies)

\* What does hold: the counters are coherent and not below the start in every
\* position reached without a play at the last value of the ply counter.
CountersCoherentBelowMax ==
    (\A i \in 1 .. Len(history) : history[i].before.total_plies /= U32MAX)
        /\ (last.op \in {"play", "abort"} => last.before.total_plies /= U32MAX)
        => C25_CountersCoherent

\* The corner a color's rook stands on for a side of the board.
Corner(c, side) ==
    SquareNew(IF side = KingSide THEN FileH ELSE FileA, first_rank(c))
\* Whether rights hold the right to castle on a side.
HasSide(rights, side) == rights \in {side, BothSides}

\* C26: a play removes from a color the right to castle on a side only when
\* the king of that color moved, or when the rook standing on the corner of
\* that side on the color's back rank moved away or was captured.
C26_RightsLostByCornerOnly ==
    last.op = "play" =>
        LET b == last.before
            m == last.move
            mover == current_player(b)
        IN  \A c \in Colors : \A side \in {KingSide, QueenSide} :
                (HasSide(b.castle_rights[c], side) /\ ~HasSide(board.castle_rights[c], side)) =>
                    \/ c = mover /\ m.start \in occupancy(b, "King", c)
                    \/ /\ c = mover
                       /\ m.start = Corner(c, side)
                       /\ m.start \in occupancy(b, "Rook", c)
                    \/ /\ c /= mover
                       /\ m.destination = Corner(c, side)
                       /\ m.destination \in occupancy(b, "Rook", c)

\* C26: White, with both rights and rooks on A1, A4 and H1, moved the rook on
\* A4 to B4; the rook on A1 and the king have not moved, and the right to
\* castle queen-side is gone.
C26_Witness ==
    /\ last.op = "play"
    /\ last.move = Move(A4, B4, None)
    /\ last.before.castle_rights["White"] = BothSides
    /\ board.castle_rights["White"] = KingSide
    /\ A1 \in occupancy(board, "Rook", "White")
    /\ E1 \in occupancy(board, "King", "White")

\* What does hold: a right is lost only when the king moved or when a rook of
\* the color left the file of the corner or was captured on it.
RightsLostByFileOnly ==
    last.op = "play" =>
        LET b == last.before
            m == last.move
            mover == current_player(b)
        IN  \A c \in Colors : \A side \in {KingSide, QueenSide} :
                (HasSide(b.castle_rights[c], side) /\ ~HasSide(board.castle_rights[c], side)) =>
                    \/ c = mover /\ m.start \in occupancy(b, "King", c)
                    \/ /\ c = mover
                       /\ file_index(m.start) = file_index(Corner(c, side))
                       /\ m.start \in occupancy(b, "Rook", c)
                    \/ /\ c /= mover
                       /\ file_index(m.destination) = file_index(Corner(c, side))
                       /\ m.destination \in occupancy(b, "Rook", c)

(***************************************************************************)
(* Quiet pawn moves against a set of blockers (movegen/moves.rs).          *)
(***************************************************************************)
\* Squares the blockers of a quiet pawn move are drawn from: the four inner
\* squares of file E, which holds a one-step and a two-step square for each
\* color, and a square of the eighth rank.
QuietSquares == {E3, E4, E5, E6, E8}

InitQuiet ==
    /\ Idle
    /\ query \in {[color |-> c, square |-> s, blockers |-> b] :
                    c \in Colors, s \in Squares, b \in SUBSET QuietSquares}
    /\ result = NoResult
    /\ last = [op |-> "new"]

\* pawn_quiet_moves(color, square, blockers)
PawnQuietMoves ==
    /\ last.op = "new"
    /\ result' = pawn_quiet_moves(query.color, query.square, query.blockers)
    /\ last' = [op |-> "pawn_quiet_moves"]
    /\ UNCHANGED <<board, history, builder, query, overflow_checks, magic_moves, hash, iter>>

NextQuiet == PawnQuietMoves

SpecQuiet == InitQuiet /\ [][NextQuiet]_vars

\* C27: for every color, square and blocker set the result of
\* pawn_quiet_moves has no square in common with the blockers (neither the
\* one-step nor the two-step square is returned when it is a blocker), and
\* it is empty for a pawn on the first or the eighth rank.
C27_NeverOccupied ==
    last.op = "pawn_quiet_moves" =>
        /\ (result \cap query.blockers) = EMPTY
        /\ rank_index(query.square) \in {RankFirst, RankEighth} => result = EMPTY

\* C27: the white pawn on E2 with a blocker on E4 only is given both E3 and
\* the occupied square E4.
C27_Witness ==
    /\ last.op = "pawn_quiet_moves"
    /\ query = [color |-> "White", square |-> E2, blockers |-> {E4}]
    /\ result = {E3, E4}
    /\ (result \cap query.blockers) = {E4}

\* The square one step ahead of a pawn.
OneStep(color, sq) == move_board(forward_direction(color), into_bitboard(sq))

\* What does hold: the square one step ahead is never returned when it is a
\* blocker, the result is empty on the first and the eighth rank, and an
\* occupied square in the result is always the two-step square of a pawn on
\* its second rank whose one-step square is free.
QuietMovesStopAtFirstStep ==
    last.op = "pawn_quiet_moves" =>
        /\ (OneStep(query.color, query.square) \cap query.blockers) /= EMPTY => result = EMPTY
        /\ rank_index(query.square) \in {RankFirst, RankEighth} => result = EMPTY
        /\ (result \cap query.blockers) /= EMPTY =>
                /\ rank_index(query.square) = second_rank(query.color)
                /\ (result \cap query.blockers) =
                        into_bitboard(SquareNew(file_index(query.square), fourth_rank(query.color)))
                /\ (OneStep(query.color, query.square) \cap query.blockers) = EMPTY

(***************************************************************************)
(* validate() on arbitrary field values: every board whose piece, color    *)
(* and combined occupancies are arbitrary sets over a few squares, with    *)
(* any side, ply parity, rights and en-passant square.                     *)
(***************************************************************************)
\* The squares the occupancies are drawn from: the two king squares.
FieldSquares == {E1, E8}
\* The pieces whose boards vary; the boards of the others are empty.
FieldPieces == {"King", "Queen", "Pawn"}

FieldBoards ==
    {[piece_occupancy |-> [p \in Pieces |-> IF p \in FieldPieces THEN po[p] ELSE EMPTY],
      color_occupancy |-> co,
      combined_occupancy |-> combined,
      castle_rights |-> [c \in Colors |-> IF c = "White" THEN rights ELSE NoSide],
      en_passant |-> ep,
      half_move_clock |-> W(0),
      total_plies |-> W(plies),
      side |-> side] :
        po \in [FieldPieces -> SUBSET FieldSquares],
        co \in [Colors -> SUBSET FieldSquares],
        combined \in SUBSET FieldSquares,
        rights \in {NoSide, BothSides},
        ep \in {None, Some(E3)},
        plies \in {0, 1},
        side \in Colors}

InitFields ==
    /\ board \in FieldBoards
    /\ history = <<>>
    /\ builder = NoBuilder
    /\ overflow_checks = TRUE
    /\ magic_moves = NoMagicMoves
    /\ hash = NoHash
    /\ iter = NoIter
    /\ query = NoQuery
    /\ result = NoResult
    /\ last = [op |-> "new", edits |-> 0]

NextFields == Validate

SpecFields == InitFields /\ [][NextFields]_vars

\* C28: validate() never aborts, whatever the values of the fields: it
\* returns Ok or a ValidationError, and both unwraps of a king's square are
\* reached only on boards where each color has exactly one king.
C28_ValidateTotal ==
    last.op = "validate" =>
        /\ result /= "Aborted"
        /\ result \in {"NeighbouringKings", "OpponentInCheck", "Ok"} =>
                \A c \in Colors : count(occupancy(board, "King", c)) = 1

\* C28: a board without a white king, otherwise in order up to the count of
\* the kings (white to move, no rights, the black king alone on E8), is
\* turned down as MissingKing without reaching an unwrap.
C28_Witness ==
    /\ last.op = "validate"
    /\ occupancy(board, "King", "White") = EMPTY
    /\ occupancy(board, "King", "Black") = {E8}
    /\ board.combined_occupancy = {E8}
    /\ ~try_into_square(occupancy(board, "King", "White")).ok
    /\ result = "MissingKing"

\* The unwraps are reached: a board of the same fields with both kings goes
\* through the two of them and is accepted.
BothKingsUnwrapped ==
    /\ last.op = "validate"
    /\ occupancy(board, "King", "White") = {E1}
    /\ occupancy(board, "King", "Black") = {E8}
    /\ result = "Ok"

(***************************************************************************)
(* The bounds of the magic lookups (movegen/wizardry/mod.rs).              *)
(***************************************************************************)
\* The slice of the moves vector the lookups of a square fall in: first
\* index and the index after the last, for a mask of k squares 2^k apart.
TableRange(magic) == [lo |-> magic.offset, hi |-> magic.offset + 2 ^ count(magic.mask)]

\* C29: when the table of a square has been generated, its mask has at least
\* one square and its shift is below 64; the index Magic::get_index computes
\* for the square lies in [offset, offset + 2^k) for every subset of the
\* mask, alone and together with every square off the mask; that range lies
\* inside the moves vector generated so far; and it has no index in common
\* with the range of any other square generated.
C29_LookupsInBounds ==
    (last.op = "generate" /\ ~magic_moves[last.kind].panicked) =>
        \A tables \in {magic_moves[last.kind]} :
            \A magic \in {tables.magics[last.square + 1]} :
                /\ magic.mask = mask_fn(last.kind, last.square)
                /\ count(magic.mask) >= 1
                /\ magic.shift = 64 - count(magic.mask)
                /\ magic.shift < 64
                /\ \A blockers \in SUBSET magic.mask :
                    /\ get_index(magic, blockers) >= TableRange(magic).lo
                    /\ get_index(magic, blockers) < TableRange(magic).hi
                    /\ get_index(magic, blockers \cup (ALL \ magic.mask))
                            = get_index(magic, blockers)
                /\ TableRange(magic).hi <= Len(tables.moves)
                /\ \A other \in 1 .. Len(tables.magics) :
                    other /= last.square + 1 =>
                        \/ TableRange(tables.magics[other]).hi <= TableRange(magic).lo
                        \/ TableRange(magic).hi <= TableRange(tables.magics[other]).lo

\* C29: the rook table is complete; the last square, H8, has a mask of 12
\* squares, the last 4096 places of the 102400 of the vector, and the lookup
\* for a full board falls among them.
C29_Witness ==
    /\ last = [op |-> "generate", kind |-> "Rook", square |-> H8]
    /\ Initialised("Rook")
    /\ Len(magic_moves.Rook.moves) = 102400
    /\ TableRange(magic_moves.Rook.magics[H8 + 1]) = [lo |-> 98304, hi |-> 102400]
    /\ get_index(magic_moves.Rook.magics[H8 + 1], ALL) >= 98304
    /\ get_index(magic_moves.Rook.magics[H8 + 1], ALL) < 102400

(***************************************************************************)
(* The naive attack sets of a hemmed-in slider (movegen/naive), which      *)
(* generate_magics stores in slots it marks free with Bitboard::EMPTY.     *)
(***************************************************************************)
\* The blockers: every set of squares next to the piece, and the full board.
InitNaive ==
    /\ Idle
    /\ query \in
        UNION {{[square |-> s, blockers |-> bl] : bl \in SUBSET naive_king_moves(s)}
                \cup {[square |-> s, blockers |-> ALL]} : s \in Squares}
    /\ result = NoResult
    /\ last = [op |-> "new"]

\* naive::bishop_moves(square, blockers) and naive::rook_moves(square, blockers)
NaiveAttacks ==
    /\ last.op = "new"
    /\ result' = [bishop |-> naive_bishop_moves(query.square, query.blockers),
                  rook |-> naive_rook_moves(query.square, query.blockers)]
    /\ last' = [op |-> "naive_attacks"]
    /\ UNCHANGED <<board, history, builder, query, overflow_checks, magic_moves, hash, iter>>

NextNaive == NaiveAttacks

SpecNaive == InitNaive /\ [][NextNaive]_vars

\* A table slot holding the attack set held, met by the attack set moves in
\* the loop of generate_magics.
SlotMeets(held, moves) == FillStep([moves |-> <<held>>, collision |-> FALSE], 1, moves)

\* C30: for every square and blocker set the naive bishop attacks and the
\* naive rook attacks are not empty, so a slot that holds one of them is
\* never taken for a free slot: met by a different attack set it is a
\* collision, and the set it holds is kept.
C30_AttacksNeverEmpty ==
    last.op = "naive_attacks" =>
        /\ result.bishop /= EMPTY
        /\ result.rook /= EMPTY
        /\ result.bishop /= result.rook
        /\ SlotMeets(result.bishop, result.rook) =
                [moves |-> <<result.bishop>>, collision |-> TRUE]
        /\ SlotMeets(result.rook, result.bishop) =
                [moves |-> <<result.rook>>, collision |-> TRUE]

\* C30: the piece on E4 with all eight squares around it occupied attacks
\* just the four occupied squares of its directions.
C30_Witness ==
    /\ last.op = "naive_attacks"
    /\ query = [square |-> E4, blockers |-> naive_king_moves(E4)]
    /\ result.bishop = {D3, D5, F3, SquareNew(FileF, RankFifth)}
    /\ result.rook = {SquareNew(FileD, RankFourth), E3, E5, SquareNew(FileF, RankFourth)}

====
